---- MODULE Spec2Model ----
(***************************************************************************)
(* Thermal-printer receipt engine of the point-of-sale application.       *)
(*                                                                         *)
(* The model covers the App component: the Bluetooth link state, the       *)
(* print confirmation modal, the print job printBluetoothDirect and the    *)
(* transport writer it drives (sendDataToPrinter), with the command        *)
(* encoder (ESC/POS literals, textToBytes, getSeparator); and around them  *)
(* the order form, the cart, the saved records, the draft and the settings *)
(* kept in localStorage, the sync to the Apps Script and the AI helpers.   *)
(* The catalogue of services, the search box, the CSV export, the          *)
(* WhatsApp link, the sync badge (lastSyncStatus, lastSyncedAt), the flags *)
(* that show the settings and the tips dialogs, and the fields fontSize    *)
(* and autoSaveInterval of the settings are left out: no handler followed  *)
(* here reads them.                                                        *)
(*                                                                         *)
(* Text is a sequence of character codes, a buffer a sequence of bytes.    *)
(* Amounts of money are in sen (1/100 RM).                                 *)
(***************************************************************************)
EXTENDS Naturals, Integers, Sequences, FiniteSets, TLC

(***************************************************************************)
(* Bounds of the model.                                                    *)
(***************************************************************************)
\* length of the summary kept of the stream the link has seen
MaxRuns == 3
\* presses of the Cari Device button in a run with prints
MaxConnects == 1
\* presses of the Cetak Sekarang button in a run without other inputs
MaxPrints == 2
\* presses of the Cetak Sekarang button in a run with other inputs
MaxReceipts == 1
\* inputs to the order, the records and the settings in a run with a print
MaxEdits == 1
\* presses of the Cari Device button in a run without prints
MaxPairings == 2
\* inputs to the order, the records and the settings in a run without prints
MaxInputs == 3
\* longest cart an item is added to
MaxOrder == 2
\* longest buffer handed to the transport writer on its own
MaxBufLen == 5
\* largest chunk limit tried for the transport writer on its own
MaxLimit == 3
\* longest cart of a receipt printed on its own
MaxCart == 2
\* most extra feeds of a receipt printed on its own
MaxFeeds == 1

(***************************************************************************)
(* Command encoder: fixed ESC/POS literals.                                *)
(***************************************************************************)
ESC_INIT == <<27, 64>>
ESC_ALIGN_CENTER == <<27, 97, 1>>
ESC_ALIGN_LEFT == <<27, 97, 0>>
ESC_BOLD_ON == <<27, 69, 1>>
ESC_BOLD_OFF == <<27, 69, 0>>
ESC_FEED == <<10>>
FONT_SIZE_NORMAL == <<29, 33, 0>>
FONT_SIZE_LARGE == <<29, 33, 17>>
FONT_SIZE_DOUBLE_HEIGHT == <<29, 33, 1>>

\* highest character code that has a single-byte representation
MaxByte == 255
\* the byte sent in place of a character that has none ('?')
FallbackByte == 63
\* the dash character and the line terminator
DashChar == 45
LineFeed == 10

\* a variant that leaves out the characters it cannot represent
textToBytesDropping(s) == SelectSeq(s, LAMBDA c : c <= MaxByte)

\* textToBytes: one byte for each character of the text
RECURSIVE textToBytes(_)
textToBytes(s) ==
  IF s = <<>> THEN <<>>
  ELSE <<IF Head(s) <= MaxByte THEN Head(s) ELSE FallbackByte>>
         \o textToBytes(Tail(s))

\* printable columns of a paper profile
WidthNarrow == 32
WidthWide == 48
width(paperWidth) == IF paperWidth = "80mm" THEN WidthWide ELSE WidthNarrow

RECURSIVE Repeat(_, _)
Repeat(c, n) == IF n = 0 THEN <<>> ELSE <<c>> \o Repeat(c, n - 1)

\* a variant that draws the line one column short
getSeparatorShort(paperWidth) ==
  Repeat(DashChar, width(paperWidth) - 1) \o <<LineFeed>>

\* getSeparator: a dash line as wide as the paper, then the line terminator
getSeparator(paperWidth) == Repeat(DashChar, width(paperWidth)) \o <<LineFeed>>

(***************************************************************************)
(* Text helpers of the application.                                        *)
(***************************************************************************)
SlashChar == 47
HyphenChar == 45
Includes(s, c) == \E i \in 1..Len(s) : s[i] = c

\* String.prototype.split on a one-character separator
RECURSIVE SplitFrom(_, _, _)
SplitFrom(s, c, cur) ==
  IF s = <<>> THEN <<cur>>
  ELSE IF Head(s) = c THEN <<cur>> \o SplitFrom(Tail(s), c, <<>>)
  ELSE SplitFrom(Tail(s), c, Append(cur, Head(s)))
Split(s, c) == SplitFrom(s, c, <<>>)

\* "undefined", what a template literal shows for a missing array element
UndefinedText == <<117, 110, 100, 101, 102, 105, 110, 101, 100>>
Part(parts, i) == IF i <= Len(parts) THEN parts[i] ELSE UndefinedText

formatDateForDisplay(isoDate) ==
  IF isoDate = <<>> THEN <<HyphenChar>>
  ELSE IF Includes(isoDate, SlashChar) THEN isoDate
  ELSE LET p == Split(isoDate, HyphenChar)
       IN  Part(p, 3) \o <<SlashChar>> \o Part(p, 2) \o <<SlashChar>> \o Part(p, 1)

\* getTodayISO(): the day of the run, 2024-01-06
TodayIso == <<50, 48, 50, 52, 45, 48, 49, 45, 48, 54>>
getTodayISO == TodayIso

formatDateForInput(displayDate) ==
  IF displayDate = <<>> THEN getTodayISO
  ELSE IF Includes(displayDate, SlashChar)
  THEN LET p == Split(displayDate, SlashChar)
       IN  Part(p, 3) \o <<HyphenChar>> \o Part(p, 2) \o <<HyphenChar>> \o Part(p, 1)
  ELSE displayDate

\* decimal digits of a natural number
RECURSIVE Digits(_)
Digits(n) == IF n < 10 THEN <<48 + n>> ELSE Digits(n \div 10) \o <<48 + (n % 10)>>

\* Number.prototype.toFixed(2) of an amount held in sen
toFixed2(sen) ==
  Digits(sen \div 100) \o <<46>> \o <<48 + ((sen % 100) \div 10), 48 + (sen % 10)>>

\* total: the sum of the prices in the cart
RECURSIVE total(_)
total(cart) == IF cart = <<>> THEN 0 ELSE Head(cart).price + total(Tail(cart))

(***************************************************************************)
(* Literal texts of the receipt.                                           *)
(***************************************************************************)
TitleText == <<72, 65, 73, 82, 73, 32, 77, 85, 83, 84, 65, 70, 65, 32, 65, 83, 83, 79, 67, 73, 65, 84, 69, 83>>
SubtitleText == <<80, 101, 103, 117, 97, 109, 32, 83, 121, 97, 114, 105, 101, 32, 38, 32, 80, 74, 83>>
OfficePhoneText == <<48, 49, 49, 45, 53, 54, 53, 51, 32, 49, 51, 49, 48>>
TarikhPrefix == <<84, 97, 114, 105, 107, 104, 58, 32>>
NamaPrefix == <<78, 97, 109, 97, 58, 32>>
TelPrefix == <<84, 101, 108, 58, 32>>
AlamatPrefix == <<65, 108, 97, 109, 97, 116, 58, 32>>
RMPrefix == <<82, 77, 32>>
JumlahPrefix == <<74, 85, 77, 76, 65, 72, 58, 32, 82, 77, 32>>
DefaultFooter == <<84, 101, 114, 105, 109, 97, 32, 75, 97, 115, 105, 104>>
TestPrintName == <<84, 69, 83, 84, 32, 80, 82, 73, 78, 84>>
TestServiceText == <<84, 69, 83, 84, 32, 83, 69, 82, 86, 73, 67, 69>>
TestPriceText == <<82, 77, 32, 49, 48, 46, 48, 48>>
TestTotalText == <<49, 48, 46, 48, 48>>

(***************************************************************************)
(* The command sequence of one print job, in the order in which            *)
(* printBluetoothDirect hands the buffers to sendDataToPrinter.            *)
(***************************************************************************)
RECURSIVE ItemBuffers(_)
ItemBuffers(cart) ==
  IF cart = <<>> THEN <<>>
  ELSE <<textToBytes(Head(cart).name),
         textToBytes(RMPrefix \o toFixed2(Head(cart).price))>>
       \o ItemBuffers(Tail(cart))

RECURSIVE FeedBuffers(_)
FeedBuffers(n) == IF n <= 0 THEN <<>> ELSE <<ESC_FEED>> \o FeedBuffers(n - 1)

\* a variant that leaves bold on after the title
HeaderBuffersBoldLeftOn(ps) ==
  <<ESC_INIT, ESC_ALIGN_CENTER>>
  \o (IF ps.boldHeaders THEN <<ESC_BOLD_ON>> ELSE <<>>)
  \o <<FONT_SIZE_LARGE, textToBytes(TitleText), FONT_SIZE_NORMAL>>
  \o <<textToBytes(SubtitleText), textToBytes(OfficePhoneText),
       textToBytes(getSeparator(ps.paperWidth))>>

HeaderBuffers(ps) ==
  <<ESC_INIT, ESC_ALIGN_CENTER>>
  \o (IF ps.boldHeaders THEN <<ESC_BOLD_ON>> ELSE <<>>)
  \o <<FONT_SIZE_LARGE, textToBytes(TitleText), FONT_SIZE_NORMAL>>
  \o (IF ps.boldHeaders THEN <<ESC_BOLD_OFF>> ELSE <<>>)
  \o <<textToBytes(SubtitleText), textToBytes(OfficePhoneText),
       textToBytes(getSeparator(ps.paperWidth))>>

CustomerBuffers(ps, form, isTest) ==
  <<ESC_ALIGN_LEFT,
    textToBytes(TarikhPrefix \o formatDateForDisplay(form.date)),
    textToBytes(NamaPrefix \o (IF isTest THEN TestPrintName ELSE form.name))>>
  \o (IF ~isTest /\ ps.includePhone /\ form.phone # <<>>
      THEN <<textToBytes(TelPrefix \o form.phone)>> ELSE <<>>)
  \o (IF ~isTest /\ ps.includeAddress /\ form.address # <<>>
      THEN <<textToBytes(AlamatPrefix \o form.address)>> ELSE <<>>)
  \o <<textToBytes(getSeparator(ps.paperWidth))>>

LineItemBuffers(cart, isTest) ==
  IF isTest THEN <<textToBytes(TestServiceText), textToBytes(TestPriceText)>>
  ELSE ItemBuffers(cart)

TotalBuffers(ps, cart, isTest) ==
  <<textToBytes(getSeparator(ps.paperWidth)),
    ESC_ALIGN_CENTER, ESC_BOLD_ON, FONT_SIZE_DOUBLE_HEIGHT,
    textToBytes(JumlahPrefix \o (IF isTest THEN TestTotalText ELSE toFixed2(total(cart)))),
    FONT_SIZE_NORMAL, ESC_BOLD_OFF>>

FooterBuffers(ps) ==
  <<textToBytes(IF ps.footerText # <<>> THEN ps.footerText ELSE DefaultFooter)>>

\* a variant that hands the footer over before the total
ReceiptBuffersFooterFirst(ps, form, cart, isTest) ==
  HeaderBuffers(ps) \o CustomerBuffers(ps, form, isTest)
  \o LineItemBuffers(cart, isTest) \o FooterBuffers(ps)
  \o TotalBuffers(ps, cart, isTest) \o FeedBuffers(ps.extraFeeds)

ReceiptBuffers(ps, form, cart, isTest) ==
  HeaderBuffers(ps) \o CustomerBuffers(ps, form, isTest)
  \o LineItemBuffers(cart, isTest) \o TotalBuffers(ps, cart, isTest)
  \o FooterBuffers(ps) \o FeedBuffers(ps.extraFeeds)

(***************************************************************************)
(* Transport writer.  sendDataToPrinter(char, data) splits data into       *)
(* chunks of at most the chunk limit and writes them to the                *)
(* characteristic one after the other, awaiting each write.                *)
(***************************************************************************)
Min(a, b) == IF a < b THEN a ELSE b

RECURSIVE ChunksFrom(_, _, _)
ChunksFrom(data, limit, i) ==
  IF i > Len(data) THEN <<>>
  ELSE <<SubSeq(data, i, Min(i + limit - 1, Len(data)))>>
       \o ChunksFrom(data, limit, i + limit)
\* a variant that cuts one byte too many into each chunk
ChunksOffByOne(data, limit) ==
  IF Len(data) <= limit THEN <<data>> ELSE ChunksFrom(data, limit + 1, 1)

\* a variant that cuts at the default payload whatever the limit of the link
ChunksAtDefault(data, limit) == ChunksFrom(data, 20, 1)

\* the chunks of data: data.slice(i, i + limit) for i = 0, limit, 2*limit, ...
Chunks(data, limit) == IF Len(data) <= limit THEN <<data>> ELSE ChunksFrom(data, limit, 1)

\* the chunk limit of a link: the default BLE payload
DefaultLimit == 20

\* what a failed send throws
ChunkWriteFailed == "ChunkWriteFailed"
LinkDisconnected == "LinkDisconnected"


\* what a send throws is a value of one of these kinds: a string, a plain
\* object with the kind and a command index, or an Error named after the kind
ThrownShapes == {"string", "object", "error"}
ThrownMessage == "write failed"
Thrown(kind) == {[shape |-> s, kind |-> kind] : s \in ThrownShapes}

(***************************************************************************)
(* State.                                                                  *)
(***************************************************************************)
VARIABLES
  bt,                 \* BluetoothState: device, characteristic, status, connected
  conns,              \* the printers picked so far: whether the GATT server is connected
  calls,              \* for each of them, where its connectBluetooth call has got to
  chunkLimit,         \* payload limit of the link
  isPrintConfirmOpen, \* the print confirmation modal is shown
  printerSettings,    \* PrinterSettings
  clientForm,         \* the customer form
  cart,               \* the cart items
  editId,             \* id of the record being edited, or null
  jobs,               \* the invocations of printBluetoothDirect, in order of their start
  outstanding,        \* for each characteristic, the jobs with a write issued on it
                      \* and not yet resolved, oldest first
  wireRuns,           \* for each characteristic, the jobs whose writes reached it,
                      \* in order of arrival
  lastAlert,          \* the alert the last handler showed outside a print job, if any
  room,               \* the presses and inputs the user still makes in this run
  clients,            \* the saved records, newest first
  draft,              \* localStorage hm_order_draft
  timers,             \* the syncs scheduled by saveRecord and not yet run
  isSyncing,          \* the CLOUD SYNC button is disabled
  fetches,            \* the requests to the Apps Script not yet settled
  synced,             \* what the last scheduled sync did
  clock,              \* Date.now() as last read
  isAiLoading,        \* the summary button shows its spinner
  isTipsLoading,      \* the tips button shows its spinner
  aiSummary,          \* the summary shown
  legalTips,          \* the tips shown in the tips modal
  aiCalls,            \* where handleAiAnalyze and handleGenerateTips have got to
  sendData,           \* transport writer on its own: the buffer to send
  sendLimit,          \* transport writer on its own: its chunk limit
  send                \* transport writer on its own: progress of the call

linkVars == <<bt, conns, calls>>
jobVars == <<jobs, outstanding, wireRuns>>
orderVars == <<clientForm, cart, editId>>
syncVars == <<timers, isSyncing, fetches, synced>>
aiVars == <<isAiLoading, isTipsLoading, aiSummary, legalTips, aiCalls>>
ownVars == <<sendData, sendLimit, send>>
pageVars == <<linkVars, chunkLimit, isPrintConfirmOpen, printerSettings, orderVars,
              jobVars, lastAlert, clients, draft, syncVars, clock, aiVars>>
vars == <<bt, conns, calls, chunkLimit, isPrintConfirmOpen, printerSettings,
          clientForm, cart, editId, jobs, outstanding, wireRuns, lastAlert, room,
          clients, draft, timers, isSyncing, fetches, synced, clock,
          isAiLoading, isTipsLoading, aiSummary, legalTips, aiCalls,
          sendData, sendLimit, send>>

\* a printer picked in the chooser is named by its place in conns; so are
\* its characteristic and the connectBluetooth call that picked it
Devices == 1..Len(conns)
\* the invocations of printBluetoothDirect made so far
JobIds == DOMAIN jobs
\* null device / characteristic / editId
Null == 0

\* device.name of a printer
DeviceName(d) == "P" \o ToString(d)

StatusInitial == "Bluetooth: Tidak Bersambung (Klik Cari Device)"
StatusConnected(d) == "Bluetooth: BERSAMBUNG (" \o DeviceName(d) \o ")"
StatusLost == "Bluetooth: Terputus"

AlertNone == "none"
AlertConnectFailed == "Gagal menyambung Bluetooth. Pastikan Bluetooth dihidupkan."
AlertConnectFirst == "Sila sambung Bluetooth dahulu"
AlertFillCustomer == "Sila isi maklumat pelanggan"
AlertPickService == "Sila pilih servis"
AlertPrintError == "Ralat cetakan Bluetooth: "
AlertEnterName == "Sila masukkan nama pelanggan"
AlertPickOne == "Sila pilih sekurang-kurangnya satu servis"
AlertUpdated == "Rekod berjaya dikemaskini."
AlertSaved == "Rekod baru berjaya disimpan."
AlertEnterScriptUrl == "Sila masukkan URL Apps Script dalam tetapan."
AlertNoRecords == "Tiada data rekod untuk disegerakkan."
AlertSyncSent == "Penyegerakan berjaya dihantar ke Google Sheets."
AlertSyncFailed == "Gagal menyegerakkan data. Sila semak URL Apps Script anda."
AlertEnterSheetUrl == "Sila masukkan URL Google Sheet dalam tetapan."

\* String(e) of what a failed send threw
ErrorText(e) ==
  IF e.shape = "string" THEN e.kind
  ELSE IF e.shape = "object" THEN "[object Object]"
  ELSE e.kind \o ": " \o ThrownMessage

\* no command index
NoIndex == -1

\* the chunk writes of a sequence of buffers, in order: sendDataToPrinter is
\* awaited for one buffer before it is called for the next
RECURSIVE WritesFrom(_, _, _)
WritesFrom(bufs, limit, c) ==
  IF c > Len(bufs) THEN <<>>
  ELSE LET ch == Chunks(bufs[c], limit)
       IN  [k \in 1..Len(ch) |-> [cmd |-> c, chunk |-> k]]
           \o WritesFrom(bufs, limit, c + 1)
JobWrites(bufs, limit) == WritesFrom(bufs, limit, 1)
\* the bytes the chunk write w of a sequence of buffers carries
BytesOfWrite(bufs, limit, w) == Chunks(bufs[w.cmd], limit)[w.chunk]

\* the GATT connection behind a characteristic is up
LinkUp(char) == char # Null /\ conns[char]

(***************************************************************************)
(* What localStorage holds when the page is loaded: the settings, the      *)
(* saved records and the draft of an order.                                *)
(***************************************************************************)
FooterSetting == <<84, 101, 114, 105, 109, 97, 32, 75, 97, 115, 105, 104, 32, 97, 116, 97, 115, 32, 117, 114, 117, 115, 97, 110, 32, 97, 110, 100, 97, 46>>
ScriptUrl == "https://script.google.com/macros/s/AKfycbyIHqNj2twPWG1vvrHOhe4v2nkWtCQF6TvStKCBDv2CyoTLeT_FuQvGVOvhWuEVlDAr/exec"
SheetUrl == "https://docs.google.com/spreadsheets/d/1"
NameAli == <<65, 76, 73>>
NameSiti == <<83, 73, 84, 73>>
PhoneAli == <<48, 49, 50, 51>>
AddressAli == <<75, 76>>
ServiceWasiat == <<87, 65, 83, 73, 65, 84>>
DateIso == <<50, 48, 50, 52, 45, 48, 49, 45, 48, 53>>
PaymentTunai == "Tunai"
PaymentQR == "DuitNow QR"

DEFAULT_PRINTER_SETTINGS ==
  [paperWidth |-> "58mm", extraFeeds |-> 3, boldHeaders |-> TRUE,
   footerText |-> FooterSetting, googleSheetUrl |-> "",
   googleAppsScriptUrl |-> ScriptUrl, autoSync |-> FALSE,
   includePhone |-> TRUE, includeAddress |-> TRUE]
\* the defaults with autoSync ticked
SyncSettings == [DEFAULT_PRINTER_SETTINGS EXCEPT !.autoSync = TRUE]
PlainSettings ==
  [paperWidth |-> "80mm", extraFeeds |-> 0, boldHeaders |-> FALSE,
   footerText |-> <<>>, googleSheetUrl |-> "", googleAppsScriptUrl |-> "",
   autoSync |-> FALSE, includePhone |-> FALSE, includeAddress |-> FALSE]

\* the form as useState and resetForm make it
BlankForm == [date |-> getTodayISO, name |-> <<>>, phone |-> <<>>, address |-> <<>>,
              payment |-> PaymentTunai]
FilledForm == [date |-> DateIso, name |-> NameAli, phone |-> PhoneAli,
               address |-> AddressAli, payment |-> PaymentTunai]
SitiForm == [date |-> DateIso, name |-> NameSiti, phone |-> <<>>, address |-> <<>>,
             payment |-> PaymentQR]

\* a cart item: the service with the time it was put in the cart as its id
ItemOf(service, id) == [id |-> id, name |-> service.name, price |-> service.price]
Wasiat == [name |-> ServiceWasiat, price |-> 15050]

\* cart.map(i => i.name).join(', ')
RECURSIVE JoinNames(_)
JoinNames(items) ==
  IF items = <<>> THEN <<>>
  ELSE IF Len(items) = 1 THEN Head(items).name
  ELSE Head(items).name \o <<44, 32>> \o JoinNames(Tail(items))

\* the record saveRecord builds from the form and the cart
RecordOf(id, form, items) ==
  [id |-> id, date |-> formatDateForDisplay(form.date), name |-> form.name,
   phone |-> form.phone, address |-> form.address, items |-> JoinNames(items),
   total |-> total(items), payment |-> form.payment, cartItems |-> items]

\* the form editClient makes of a record
FormOf(record) ==
  [date |-> formatDateForInput(record.date), name |-> record.name,
   phone |-> record.phone, address |-> record.address, payment |-> record.payment]

\* what syncToGoogleSheet sends of a record
PayloadOf(c) ==
  [date |-> c.date, name |-> c.name, phone |-> c.phone, address |-> c.address,
   items |-> c.items, total |-> c.total, payment |-> c.payment]
SyncData(list) == [i \in 1..Len(list) |-> PayloadOf(list[i])]

HasId(list, id) == \E i \in 1..Len(list) : list[i].id = id

\* two records saved at the times 1 and 2, the newer first
FirstRecord == RecordOf(1, FilledForm, <<ItemOf(Wasiat, 1)>>)
SecondRecord == RecordOf(2, SitiForm, <<ItemOf(Wasiat, 2)>>)
TwoRecords == <<SecondRecord, FirstRecord>>
\* the time of the first page load
LoadTime == 3

\* no draft in localStorage; the draft of a new order; the draft of an
\* order opened with the edit button of the older record
NoDraft == [kept |-> FALSE]
DraftOf(form, items, id) ==
  [kept |-> TRUE, clientForm |-> form, cart |-> items, editId |-> id]
NewDraft == DraftOf(FilledForm, <<ItemOf(Wasiat, 2)>>, Null)
EditDraft == DraftOf(FormOf(FirstRecord), FirstRecord.cartItems, FirstRecord.id)

\* an office at work: records, an order being edited, autoSync ticked
BusyStore == [clients |-> TwoRecords, settings |-> SyncSettings, draft |-> EditDraft]
\* a first order, autoSync ticked
FreshStore == [clients |-> <<>>, settings |-> SyncSettings, draft |-> NewDraft]
\* a first order with every option of the settings off
PlainStore == [clients |-> <<>>, settings |-> PlainSettings, draft |-> NewDraft]
\* nothing stored
EmptyStore == [clients |-> <<>>, settings |-> DEFAULT_PRINTER_SETTINGS, draft |-> NoDraft]

InitialBt == [device |-> Null, characteristic |-> Null,
              status |-> StatusInitial, connected |-> FALSE]
IdleSend == [st |-> "idle", k |-> 0, issued |-> <<>>, acked |-> 0, error |-> ""]

\* a job: ps, form and cart are the state its closure holds; writes are the
\* chunk writes it will make, in order; pos the one it is suspended at;
\* sent the ones it has handed to the link
IdleJob == [st |-> "idle", char |-> Null, ps |-> DEFAULT_PRINTER_SETTINGS,
            form |-> BlankForm, cart |-> <<>>, writes |-> <<>>, pos |-> 0,
            sent |-> <<>>, acked |-> 0, doomed |-> FALSE,
            alert |-> AlertNone, error |-> ""]

\* no sync has run
NoSync == [ran |-> FALSE]
\* no AI call under way
NoCalls == [analyze |-> "idle", tips |-> "idle"]

\* the user makes no press and no input
NoRoom == [picks |-> 0, prints |-> 0, inputs |-> 0]

\* the state of the component after the page was loaded with the given
\* content of localStorage: the useState initialisers, then the effect that
\* restores the draft
PageLoaded(store, limit, rm) ==
  /\ bt = InitialBt
  /\ conns = <<>>
  /\ calls = <<>>
  /\ chunkLimit = limit
  /\ isPrintConfirmOpen = FALSE
  /\ printerSettings = store.settings
  /\ clientForm = IF store.draft.kept THEN store.draft.clientForm ELSE BlankForm
  /\ cart = IF store.draft.kept THEN store.draft.cart ELSE <<>>
  /\ editId = IF store.draft.kept THEN store.draft.editId ELSE Null
  /\ jobs = <<>>
  /\ outstanding = <<>>
  /\ wireRuns = <<>>
  /\ lastAlert = AlertNone
  /\ room = rm
  /\ clients = store.clients
  /\ draft = store.draft
  /\ timers = <<>>
  /\ isSyncing = FALSE
  /\ fetches = <<>>
  /\ synced = NoSync
  /\ clock = LoadTime
  /\ isAiLoading = FALSE
  /\ isTipsLoading = FALSE
  /\ aiSummary = ""
  /\ legalTips = <<>>
  /\ aiCalls = NoCalls

\* nothing is handed to the transport writer on its own
NoCallsOfOwn ==
  /\ sendData = <<>>
  /\ sendLimit = 1
  /\ send = IdleSend

(***************************************************************************)
(* The user's part of a run: room holds how many presses of Cari Device    *)
(* (picks), presses of Cetak Sekarang (prints) and other inputs are still  *)
(* to come.  What the environment does (promises settle, timers fire, a    *)
(* printer drops its link) is not counted.                                 *)
(***************************************************************************)
Pick == room.picks > 0 /\ room' = [room EXCEPT !.picks = @ - 1]
Confirm == room.prints > 0 /\ room' = [room EXCEPT !.prints = @ - 1]
Input == room.inputs > 0 /\ room' = [room EXCEPT !.inputs = @ - 1]
Free == UNCHANGED room

(***************************************************************************)
(* connectBluetooth, suspended at each of its four awaits, and the         *)
(* device-initiated disconnect.  Every call picks a printer not picked     *)
(* before.                                                                 *)
(***************************************************************************)
\* the awaits of connectBluetooth, in order
AwaitedStages == {"requestDevice", "connect", "getPrimaryService", "getCharacteristic"}

\* what a step of connectBluetooth leaves alone
connectFrame ==
  UNCHANGED <<chunkLimit, isPrintConfirmOpen, printerSettings, orderVars, jobs,
              clients, draft, syncVars, clock, aiVars, ownVars>>

\* the Cari Device button: connectBluetooth up to its first await, the
\* chooser is shown
connectBluetooth ==
  /\ calls' = Append(calls, "requestDevice")
  /\ conns' = Append(conns, FALSE)
  /\ outstanding' = Append(outstanding, <<>>)
  /\ wireRuns' = Append(wireRuns, <<>>)
  /\ lastAlert' = AlertNone
  /\ UNCHANGED bt
  /\ connectFrame

\* requestDevice resolves with the printer picked
DeviceChosen(c) ==
  /\ calls[c] = "requestDevice"
  /\ calls' = [calls EXCEPT ![c] = "connect"]
  /\ lastAlert' = AlertNone
  /\ UNCHANGED <<bt, conns, outstanding, wireRuns>>
  /\ connectFrame

\* device.gatt.connect() resolves: the link is up
GattConnected(c) ==
  /\ calls[c] = "connect"
  /\ calls' = [calls EXCEPT ![c] = "getPrimaryService"]
  /\ conns' = [conns EXCEPT ![c] = TRUE]
  /\ lastAlert' = AlertNone
  /\ UNCHANGED <<bt, outstanding, wireRuns>>
  /\ connectFrame

\* the device has no gatt: the three awaits resolve with undefined and the
\* call returns without a characteristic
GattMissing(c) ==
  /\ calls[c] = "connect"
  /\ calls' = [calls EXCEPT ![c] = "ended"]
  /\ lastAlert' = AlertNone
  /\ UNCHANGED <<bt, conns, outstanding, wireRuns>>
  /\ connectFrame

\* getPrimaryService resolves
ServiceFound(c) ==
  /\ calls[c] = "getPrimaryService"
  /\ calls' = [calls EXCEPT ![c] = "getCharacteristic"]
  /\ lastAlert' = AlertNone
  /\ UNCHANGED <<bt, conns, outstanding, wireRuns>>
  /\ connectFrame

\* getCharacteristic resolves: setBt, and the listener is put on the device
CharacteristicFound(c) ==
  /\ calls[c] = "getCharacteristic"
  /\ calls' = [calls EXCEPT ![c] = "paired"]
  /\ bt' = [device |-> c, characteristic |-> c,
            status |-> StatusConnected(c), connected |-> TRUE]
  /\ lastAlert' = AlertNone
  /\ UNCHANGED <<conns, outstanding, wireRuns>>
  /\ connectFrame

\* the await the call is suspended at rejects: the catch block
ConnectRejected(c) ==
  /\ calls[c] \in AwaitedStages
  /\ calls' = [calls EXCEPT ![c] = "failed"]
  /\ lastAlert' = AlertConnectFailed
  /\ UNCHANGED <<bt, conns, outstanding, wireRuns>>
  /\ connectFrame

\* the printer drops the link; its gattserverdisconnected listener runs if
\* connectBluetooth has put it on the device
Disconnect(d) ==
  /\ conns[d]
  /\ conns' = [conns EXCEPT ![d] = FALSE]
  /\ IF calls[d] = "paired"
     THEN bt' = [device |-> Null, characteristic |-> Null,
                 status |-> StatusLost, connected |-> FALSE]
     ELSE UNCHANGED bt
  /\ lastAlert' = AlertNone
  /\ UNCHANGED <<calls, outstanding, wireRuns>>
  /\ connectFrame

(***************************************************************************)
(* The confirmation modal.                                                 *)
(***************************************************************************)
\* what the buttons that only show an alert or the modal leave alone
noticeFrame ==
  UNCHANGED <<linkVars, chunkLimit, printerSettings, orderVars, jobVars,
              clients, draft, syncVars, clock, aiVars, ownVars>>

\* the BT PRINT button
handleBluetoothPrintTrigger ==
  /\ IF bt.characteristic = Null
     THEN lastAlert' = AlertConnectFirst /\ UNCHANGED isPrintConfirmOpen
     ELSE IF clientForm.name = <<>>
     THEN lastAlert' = AlertFillCustomer /\ UNCHANGED isPrintConfirmOpen
     ELSE IF Len(cart) = 0
     THEN lastAlert' = AlertPickService /\ UNCHANGED isPrintConfirmOpen
     ELSE isPrintConfirmOpen' = TRUE /\ lastAlert' = AlertNone
  /\ noticeFrame

\* the Batal button of the modal
CancelPrint ==
  /\ isPrintConfirmOpen
  /\ isPrintConfirmOpen' = FALSE
  /\ lastAlert' = AlertNone
  /\ noticeFrame

\* the THERMAL and RESIT A5 buttons: window.print() changes no state
handlePrint ==
  /\ lastAlert' = IF clientForm.name = <<>> THEN AlertFillCustomer ELSE AlertNone
  /\ UNCHANGED isPrintConfirmOpen
  /\ noticeFrame

\* the button that opens the Google Sheet in a new tab
openGoogleSheet ==
  /\ lastAlert' = IF printerSettings.googleSheetUrl = "" THEN AlertEnterSheetUrl
                  ELSE AlertNone
  /\ UNCHANGED isPrintConfirmOpen
  /\ noticeFrame

(***************************************************************************)
(* printBluetoothDirect.  A job is suspended at each chunk write; it       *)
(* resumes when the write is accepted or rejected.  The writes of two      *)
(* jobs that overlap settle in any order.                                  *)
(***************************************************************************)
\* what a step of a print job leaves alone
jobFrame ==
  UNCHANGED <<linkVars, chunkLimit, printerSettings, orderVars, clients, draft,
              syncVars, clock, aiVars, ownVars>>

\* the summary of a link's stream after a write of job j reached the link
RunsAfter(runs, j) ==
  IF Len(runs) >= MaxRuns THEN runs
  ELSE IF runs # <<>> /\ runs[Len(runs)] = j THEN runs
  ELSE Append(runs, j)

\* a variant that hands the second and the third write over in swapped order
IssueWriteSwapped(job, p) ==
  [job EXCEPT !.st = "writing", !.pos = p,
              !.sent = Append(@, IF p = 2 THEN 3 ELSE IF p = 3 THEN 2 ELSE p),
              !.doomed = ~LinkUp(job.char)]

\* job record after char.writeValue is called with the job's write number p
IssueWrite(job, p) ==
  [job EXCEPT !.st = "writing", !.pos = p, !.sent = Append(@, p),
              !.doomed = ~LinkUp(job.char)]

Without(q, j) == SelectSeq(q, LAMBDA x : x # j)

\* the queues of the links after job j has issued a write on characteristic c
Queued(c, j) == [outstanding EXCEPT ![c] = Append(Without(@, j), j)]
Settled(c, j) == [outstanding EXCEPT ![c] = Without(@, j)]
Arrived(c, j, doomed) ==
  IF doomed THEN wireRuns ELSE [wireRuns EXCEPT ![c] = RunsAfter(@, j)]

\* the buffers a job hands to sendDataToPrinter, in order: the receipt of
\* the settings, form and cart its closure holds
BuffersOf(job) == ReceiptBuffers(job.ps, job.form, job.cart, FALSE)

\* the job a call of printBluetoothDirect(false) makes of the state it sees
Captured ==
  [IdleJob EXCEPT !.char = bt.characteristic, !.ps = printerSettings,
                  !.form = clientForm, !.cart = cart,
                  !.writes = JobWrites(ReceiptBuffers(printerSettings, clientForm,
                                                      cart, FALSE), chunkLimit)]

\* a variant without the check for a connected characteristic
ConfirmPrintUnguarded ==
  /\ isPrintConfirmOpen
  /\ LET j == Len(jobs) + 1
         started == [Captured EXCEPT !.st = "writing", !.pos = 1, !.sent = <<1>>,
                                     !.doomed = ~LinkUp(bt.characteristic)]
     IN  /\ jobs' = Append(jobs, started)
         /\ IF bt.characteristic = Null
            THEN UNCHANGED <<outstanding, wireRuns>>
            ELSE /\ outstanding' = Queued(started.char, j)
                 /\ wireRuns' = Arrived(started.char, j, started.doomed)
  /\ lastAlert' = AlertNone
  /\ UNCHANGED isPrintConfirmOpen
  /\ jobFrame

\* the Cetak Sekarang button of the modal: printBluetoothDirect(false) up
\* to its first await, or to its return when bt holds no characteristic
ConfirmPrint ==
  /\ isPrintConfirmOpen
  /\ LET j == Len(jobs) + 1
     IN  IF bt.characteristic = Null
         THEN /\ jobs' = Append(jobs, [IdleJob EXCEPT !.st = "rejected",
                                                     !.alert = AlertConnectFirst])
              /\ UNCHANGED <<outstanding, wireRuns>>
         ELSE LET started == IssueWrite(Captured, 1)
              IN  /\ jobs' = Append(jobs, started)
                  /\ outstanding' = Queued(started.char, j)
                  /\ wireRuns' = Arrived(started.char, j, started.doomed)
  /\ lastAlert' = AlertNone
  /\ UNCHANGED isPrintConfirmOpen
  /\ jobFrame

\* a variant whose successful return drops the link
WriteAcceptedDropsLink(j) ==
  /\ jobs[j].st = "writing"
  /\ ~jobs[j].doomed
  /\ LET job == [jobs[j] EXCEPT !.acked = @ + 1]
     IN  IF job.pos < Len(job.writes)
         THEN LET issued == IssueWrite(job, job.pos + 1)
              IN  /\ jobs' = [jobs EXCEPT ![j] = issued]
                  /\ outstanding' = Queued(job.char, j)
                  /\ wireRuns' = Arrived(job.char, j, issued.doomed)
                  /\ UNCHANGED <<isPrintConfirmOpen, bt>>
         ELSE /\ jobs' = [jobs EXCEPT ![j] = [job EXCEPT !.st = "ok"]]
              /\ outstanding' = Settled(job.char, j)
              /\ isPrintConfirmOpen' = FALSE
              /\ bt' = InitialBt
              /\ UNCHANGED wireRuns
  /\ lastAlert' = AlertNone
  /\ UNCHANGED <<conns, calls, chunkLimit, printerSettings, orderVars, clients,
                 draft, syncVars, clock, aiVars, ownVars>>

\* the outstanding write of job j resolves: the job goes on to its next
\* write, or returns through the finally block.  A write issued on a link
\* that was down does not resolve.
WriteAccepted(j) ==
  /\ jobs[j].st = "writing"
  /\ ~jobs[j].doomed
  /\ LET job == [jobs[j] EXCEPT !.acked = @ + 1]
     IN  IF job.pos < Len(job.writes)
         THEN LET issued == IssueWrite(job, job.pos + 1)
              IN  /\ jobs' = [jobs EXCEPT ![j] = issued]
                  /\ outstanding' = Queued(job.char, j)
                  /\ wireRuns' = Arrived(job.char, j, issued.doomed)
                  /\ UNCHANGED isPrintConfirmOpen
         ELSE /\ jobs' = [jobs EXCEPT ![j] = [job EXCEPT !.st = "ok"]]
              /\ outstanding' = Settled(job.char, j)
              /\ isPrintConfirmOpen' = FALSE
              /\ UNCHANGED wireRuns
  /\ lastAlert' = AlertNone
  /\ jobFrame

\* the kind of failure the transport reports when a write is rejected: the
\* link has gone, or the write itself failed
ThrownBy(job) == IF LinkUp(job.char) THEN ChunkWriteFailed ELSE LinkDisconnected

\* the alert of the catch block: "Ralat cetakan Bluetooth: " + e
PrintErrorAlert(e) == AlertPrintError \o ErrorText(e)

\* the job after its catch block has run on the thrown value e
Caught(job, e) ==
  [job EXCEPT !.st = "failed", !.acked = @ + 1, !.doomed = FALSE,
              !.alert = PrintErrorAlert(e), !.error = e.kind]

\* a variant that writes a rejected chunk once more before giving up
WriteRejectedRetry(j) ==
  /\ jobs[j].st = "writing"
  /\ IF Len(jobs[j].sent) = jobs[j].pos
     THEN /\ jobs' = [jobs EXCEPT ![j] =
                        [@ EXCEPT !.acked = @ + 1, !.sent = Append(@, jobs[j].pos),
                                  !.doomed = ~LinkUp(jobs[j].char)]]
          /\ outstanding' = Queued(jobs[j].char, j)
          /\ UNCHANGED isPrintConfirmOpen
     ELSE /\ \E e \in Thrown(ThrownBy(jobs[j])) :
               jobs' = [jobs EXCEPT ![j] = Caught(@, e)]
          /\ outstanding' = Settled(jobs[j].char, j)
          /\ isPrintConfirmOpen' = FALSE
  /\ lastAlert' = AlertNone
  /\ UNCHANGED wireRuns
  /\ jobFrame

\* a variant that still hands the next write over after a rejected one
WriteRejectedSendsNext(j) ==
  /\ jobs[j].st = "writing"
  /\ \E e \in Thrown(ThrownBy(jobs[j])) :
       jobs' = [jobs EXCEPT ![j] =
                  [Caught(@, e) EXCEPT !.sent = IF jobs[j].pos < Len(jobs[j].writes)
                                                 THEN Append(@, jobs[j].pos + 1)
                                                 ELSE @]]
  /\ outstanding' = Settled(jobs[j].char, j)
  /\ isPrintConfirmOpen' = FALSE
  /\ lastAlert' = AlertNone
  /\ UNCHANGED wireRuns
  /\ jobFrame

\* the outstanding write of job j rejects: sendDataToPrinter throws, the
\* catch block shows the alert, then finally closes the modal
WriteRejected(j) ==
  /\ jobs[j].st = "writing"
  /\ \E e \in Thrown(ThrownBy(jobs[j])) :
       jobs' = [jobs EXCEPT ![j] = Caught(@, e)]
  /\ outstanding' = Settled(jobs[j].char, j)
  /\ isPrintConfirmOpen' = FALSE
  /\ lastAlert' = AlertNone
  /\ UNCHANGED wireRuns
  /\ jobFrame

\* the command index the job's failure report names: the alert shows the
\* transport's error only, and a send does not know its place in the job
ReportedIndex(job) == NoIndex

\* what the job reports of its failure: the text of the alert, which ends
\* with what the awaited call threw
ReportedKind(job) == job.alert

(***************************************************************************)
(* The order form and the cart.                                            *)
(***************************************************************************)
\* what an input of the form leaves alone
formFrame ==
  UNCHANGED <<linkVars, chunkLimit, isPrintConfirmOpen, printerSettings, cart,
              editId, jobVars, clients, draft, syncVars, clock, aiVars, ownVars>>

\* the date, name, phone, payment and address inputs of the form
SetDate(d) ==
  /\ clientForm' = [clientForm EXCEPT !.date = d]
  /\ lastAlert' = AlertNone
  /\ formFrame

SetName(n) ==
  /\ clientForm' = [clientForm EXCEPT !.name = n]
  /\ lastAlert' = AlertNone
  /\ formFrame

SetPhone(p) ==
  /\ clientForm' = [clientForm EXCEPT !.phone = p]
  /\ lastAlert' = AlertNone
  /\ formFrame

SetPayment(m) ==
  /\ clientForm' = [clientForm EXCEPT !.payment = m]
  /\ lastAlert' = AlertNone
  /\ formFrame

SetAddress(a) ==
  /\ clientForm' = [clientForm EXCEPT !.address = a]
  /\ lastAlert' = AlertNone
  /\ formFrame

\* what the record keeping leaves alone
recFrame ==
  UNCHANGED <<linkVars, chunkLimit, isPrintConfirmOpen, printerSettings, jobVars,
              isSyncing, fetches, synced, isAiLoading, isTipsLoading, aiCalls,
              ownVars>>

\* Date.now() when a handler reads it: the time last read, or a later one
Times == {clock, clock + 1}

\* the + button of a service, pressed at the time now
addToCart(service, now) ==
  /\ cart' = Append(cart, ItemOf(service, now))
  /\ clock' = now
  /\ lastAlert' = AlertNone
  /\ UNCHANGED <<clientForm, editId, clients, draft, timers, aiSummary, legalTips>>
  /\ recFrame

\* the remove button of the k-th item of the cart: every item with the id
\* of that item goes
removeFromCart(k) ==
  /\ cart' = SelectSeq(cart, LAMBDA c : c.id # cart[k].id)
  /\ lastAlert' = AlertNone
  /\ UNCHANGED <<clientForm, editId, clients, draft, timers, clock, aiSummary,
                 legalTips>>
  /\ recFrame

\* the state changes of resetForm
Reset ==
  /\ clientForm' = BlankForm
  /\ cart' = <<>>
  /\ editId' = Null
  /\ aiSummary' = ""
  /\ legalTips' = <<>>
  /\ draft' = NoDraft

\* the Batal & Buat Baru and Batal Edit buttons, shown while a record is
\* being edited
resetForm ==
  /\ editId # Null
  /\ Reset
  /\ lastAlert' = AlertNone
  /\ UNCHANGED <<clients, timers, clock>>
  /\ recFrame

\* the sync saveRecord schedules when autoSync is ticked: the timer runs
\* the syncToGoogleSheet of the render saveRecord was called in, which reads
\* the clients and the settings of that render
Scheduled(record) ==
  IF printerSettings.autoSync
  THEN Append(timers, [saved |-> record, clients |-> clients,
                       url |-> printerSettings.googleAppsScriptUrl])
  ELSE timers

\* a variant that saves whatever the cart holds
saveRecordAnyCart(now) ==
  /\ clientForm.name # <<>>
  /\ LET id == IF editId # Null THEN editId ELSE now
         record == RecordOf(id, clientForm, cart)
     IN  /\ clients' = IF editId # Null
                       THEN [i \in 1..Len(clients) |->
                               IF clients[i].id = editId THEN record ELSE clients[i]]
                       ELSE <<record>> \o clients
         /\ lastAlert' = IF editId # Null THEN AlertUpdated ELSE AlertSaved
         /\ clock' = IF editId # Null THEN clock ELSE now
         /\ timers' = Scheduled(record)
  /\ Reset
  /\ recFrame

\* a variant that puts an edited record in front of the old one
saveRecordEditInFront(now) ==
  /\ clientForm.name # <<>>
  /\ Len(cart) # 0
  /\ LET id == IF editId # Null THEN editId ELSE now
         record == RecordOf(id, clientForm, cart)
     IN  /\ clients' = <<record>> \o clients
         /\ lastAlert' = IF editId # Null THEN AlertUpdated ELSE AlertSaved
         /\ clock' = IF editId # Null THEN clock ELSE now
         /\ timers' = Scheduled(record)
  /\ Reset
  /\ recFrame

\* the Simpan / Kemaskini button, pressed at the time now
saveRecord(now) ==
  IF clientForm.name = <<>>
  THEN /\ lastAlert' = AlertEnterName
       /\ UNCHANGED <<orderVars, clients, draft, timers, clock, aiSummary, legalTips>>
       /\ recFrame
  ELSE IF Len(cart) = 0
  THEN /\ lastAlert' = AlertPickOne
       /\ UNCHANGED <<orderVars, clients, draft, timers, clock, aiSummary, legalTips>>
       /\ recFrame
  ELSE /\ LET id == IF editId # Null THEN editId ELSE now
              record == RecordOf(id, clientForm, cart)
          IN  /\ clients' = IF editId # Null
                            THEN [i \in 1..Len(clients) |->
                                    IF clients[i].id = editId THEN record ELSE clients[i]]
                            ELSE <<record>> \o clients
              /\ lastAlert' = IF editId # Null THEN AlertUpdated ELSE AlertSaved
              /\ clock' = IF editId # Null THEN clock ELSE now
              /\ timers' = Scheduled(record)
       /\ Reset
       /\ recFrame

\* the edit button of the k-th record of the list
editClient(k) ==
  /\ editId' = clients[k].id
  /\ clientForm' = FormOf(clients[k])
  /\ cart' = clients[k].cartItems
  /\ lastAlert' = AlertNone
  /\ UNCHANGED <<clients, draft, timers, clock, aiSummary, legalTips>>
  /\ recFrame

\* the delete button of the k-th record, the question answered with yes
deleteClient(k) ==
  /\ clients' = SelectSeq(clients, LAMBDA c : c.id # clients[k].id)
  /\ IF editId = clients[k].id
     THEN Reset
     ELSE UNCHANGED <<orderVars, aiSummary, legalTips, draft>>
  /\ lastAlert' = AlertNone
  /\ UNCHANGED <<timers, clock>>
  /\ recFrame

\* the auto-save interval fires: the draft is written to localStorage
AutoSaveDraft ==
  /\ draft' = DraftOf(clientForm, cart, editId)
  /\ lastAlert' = AlertNone
  /\ UNCHANGED <<orderVars, clients, timers, clock, aiSummary, legalTips>>
  /\ recFrame

(***************************************************************************)
(* The settings dialog.                                                    *)
(***************************************************************************)
\* what a change of the settings leaves alone
settingsFrame ==
  UNCHANGED <<linkVars, chunkLimit, isPrintConfirmOpen, orderVars, jobVars,
              clients, draft, syncVars, clock, aiVars, ownVars>>

\* the footer text, the check boxes and the two URL inputs
SetFooterText(t) ==
  /\ printerSettings' = [printerSettings EXCEPT !.footerText = t]
  /\ lastAlert' = AlertNone
  /\ settingsFrame

SetIncludePhone(b) ==
  /\ printerSettings' = [printerSettings EXCEPT !.includePhone = b]
  /\ lastAlert' = AlertNone
  /\ settingsFrame

SetIncludeAddress(b) ==
  /\ printerSettings' = [printerSettings EXCEPT !.includeAddress = b]
  /\ lastAlert' = AlertNone
  /\ settingsFrame

SetAutoSync(b) ==
  /\ printerSettings' = [printerSettings EXCEPT !.autoSync = b]
  /\ lastAlert' = AlertNone
  /\ settingsFrame

SetGoogleSheetUrl(u) ==
  /\ printerSettings' = [printerSettings EXCEPT !.googleSheetUrl = u]
  /\ lastAlert' = AlertNone
  /\ settingsFrame

SetGoogleAppsScriptUrl(u) ==
  /\ printerSettings' = [printerSettings EXCEPT !.googleAppsScriptUrl = u]
  /\ lastAlert' = AlertNone
  /\ settingsFrame

\* the reset button of the settings dialog, the question answered with yes
resetSettings ==
  /\ printerSettings' = DEFAULT_PRINTER_SETTINGS
  /\ lastAlert' = AlertNone
  /\ settingsFrame

(***************************************************************************)
(* syncToGoogleSheet, suspended at its fetch.                              *)
(***************************************************************************)
\* what a step of a sync leaves alone
syncFrame ==
  UNCHANGED <<linkVars, chunkLimit, isPrintConfirmOpen, printerSettings, orderVars,
              jobVars, clients, draft, clock, aiVars, ownVars>>

\* the CLOUD SYNC button, disabled while a sync is under way:
\* syncToGoogleSheet(false) up to its fetch
syncToGoogleSheet ==
  /\ ~isSyncing
  /\ IF printerSettings.googleAppsScriptUrl = ""
     THEN /\ lastAlert' = AlertEnterScriptUrl
          /\ UNCHANGED <<isSyncing, fetches>>
     ELSE IF Len(clients) = 0
     THEN /\ lastAlert' = AlertNoRecords
          /\ UNCHANGED <<isSyncing, fetches>>
     ELSE /\ isSyncing' = TRUE
          /\ fetches' = Append(fetches, [auto |-> FALSE, data |-> SyncData(clients)])
          /\ lastAlert' = AlertNone
  /\ UNCHANGED <<timers, synced>>
  /\ syncFrame

\* the oldest timer of saveRecord fires: syncToGoogleSheet(true) up to its
\* fetch, with the settings and the clients of the render of that save
SyncTimerFires ==
  /\ timers # <<>>
  /\ LET t == Head(timers)
     IN  IF t.url = "" \/ Len(t.clients) = 0
         THEN /\ synced' = [ran |-> TRUE, sent |-> FALSE, saved |-> t.saved,
                            data |-> <<>>]
              /\ UNCHANGED <<isSyncing, fetches>>
         ELSE /\ synced' = [ran |-> TRUE, sent |-> TRUE, saved |-> t.saved,
                            data |-> SyncData(t.clients)]
              /\ isSyncing' = TRUE
              /\ fetches' = Append(fetches, [auto |-> TRUE,
                                             data |-> SyncData(t.clients)])
  /\ timers' = Tail(timers)
  /\ lastAlert' = AlertNone
  /\ syncFrame

\* the i-th fetch under way resolves (ok) or rejects: the rest of the try
\* block or the catch block, then finally
FetchSettles(i, ok) ==
  /\ i \in DOMAIN fetches
  /\ fetches' = [k \in 1..(Len(fetches) - 1) |->
                   IF k < i THEN fetches[k] ELSE fetches[k + 1]]
  /\ isSyncing' = FALSE
  /\ lastAlert' = IF fetches[i].auto THEN AlertNone
                  ELSE IF ok THEN AlertSyncSent ELSE AlertSyncFailed
  /\ UNCHANGED <<timers, synced>>
  /\ syncFrame

(***************************************************************************)
(* The AI helpers: handleAiAnalyze and handleGenerateTips, each suspended  *)
(* at its call of the Gemini service, for every way the call can go.       *)
(***************************************************************************)
\* how a call of the service goes: no API key; generateContent rejects;
\* a response with text; a response without text; a text that is no JSON
AiOutcomes == {"noKey", "apiError", "text", "noText", "badJson"}

SummaryNoKey == "Sila masukkan API KEY untuk menggunakan fungsi AI."
SummaryFailed == "Maaf, AI gagal menjana rumusan buat masa ini. Sila cuba sebentar lagi."
SummaryText == "rumusan"
TipsNoKey == <<"Sila hubungi pentadbir sistem untuk mengaktifkan fungsi AI.">>
TipsUnparsed == <<"Gagal memproses respons AI.">>
TipsFallback == <<"Sila pastikan semua dokumen asal dibawa semasa perjumpaan.",
                  "Catat setiap tarikh penting yang dimaklumkan oleh pejabat peguam.",
                  "Sediakan salinan kad pengenalan dan dokumen berkaitan secukupnya.">>
TipsText == <<"tip">>
AlertNoTips == "AI tidak dapat menjana tips buat masa ini."
AlertTipsError == "Ralat semasa menjana tips."

\* a variant without the catch block: an API error rejects the promise
analyzeLegalServicesThrowing(outcome) ==
  IF outcome = "noKey" THEN [settled |-> "resolved", value |-> SummaryNoKey]
  ELSE IF outcome = "apiError" THEN [settled |-> "rejected", value |-> ""]
  ELSE IF outcome = "noText" THEN [settled |-> "resolved", value |-> ""]
  ELSE [settled |-> "resolved", value |-> SummaryText]

\* analyzeLegalServices: how its promise settles.  A response without text
\* resolves with undefined, which the caller shows as ''; the summary is
\* plain text, so a text that is no JSON is a summary like any other.
analyzeLegalServices(outcome) ==
  IF outcome = "noKey" THEN [settled |-> "resolved", value |-> SummaryNoKey]
  ELSE IF outcome = "apiError" THEN [settled |-> "resolved", value |-> SummaryFailed]
  ELSE IF outcome = "noText" THEN [settled |-> "resolved", value |-> ""]
  ELSE [settled |-> "resolved", value |-> SummaryText]

\* generateLegalAdvice: how its promise settles
generateLegalAdvice(outcome) ==
  IF outcome = "noKey" THEN [settled |-> "resolved", tips |-> TipsNoKey]
  ELSE IF outcome = "apiError" THEN [settled |-> "resolved", tips |-> TipsFallback]
  ELSE IF outcome = "noText" THEN [settled |-> "resolved", tips |-> <<>>]
  ELSE IF outcome = "badJson" THEN [settled |-> "resolved", tips |-> TipsUnparsed]
  ELSE [settled |-> "resolved", tips |-> TipsText]

aiFrame ==
  UNCHANGED <<linkVars, chunkLimit, isPrintConfirmOpen, printerSettings, orderVars,
              jobVars, clients, draft, syncVars, clock, ownVars>>

\* the Analisis button, disabled while loading and while the cart is empty:
\* handleAiAnalyze up to its await
handleAiAnalyze ==
  /\ ~isAiLoading
  /\ Len(cart) # 0
  /\ isAiLoading' = TRUE
  /\ aiCalls' = [aiCalls EXCEPT !.analyze = "pending"]
  /\ lastAlert' = AlertNone
  /\ UNCHANGED <<isTipsLoading, aiSummary, legalTips>>
  /\ aiFrame

\* the awaited analyzeLegalServices settles: the rest of handleAiAnalyze,
\* which has no catch and no finally
AnalyzeSettles(outcome) ==
  /\ aiCalls.analyze = "pending"
  /\ LET r == analyzeLegalServices(outcome)
     IN  IF r.settled = "resolved"
         THEN /\ aiSummary' = r.value
              /\ isAiLoading' = FALSE
              /\ aiCalls' = [aiCalls EXCEPT !.analyze = "returned"]
         ELSE /\ aiCalls' = [aiCalls EXCEPT !.analyze = "threw"]
              /\ UNCHANGED <<aiSummary, isAiLoading>>
  /\ lastAlert' = AlertNone
  /\ UNCHANGED <<isTipsLoading, legalTips>>
  /\ aiFrame

\* the Tips button, disabled while loading and while the cart is empty:
\* handleGenerateTips up to its await
handleGenerateTips ==
  /\ ~isTipsLoading
  /\ Len(cart) # 0
  /\ isTipsLoading' = TRUE
  /\ aiCalls' = [aiCalls EXCEPT !.tips = "pending"]
  /\ lastAlert' = AlertNone
  /\ UNCHANGED <<isAiLoading, aiSummary, legalTips>>
  /\ aiFrame

\* the awaited generateLegalAdvice settles: try, catch and finally
TipsSettle(outcome) ==
  /\ aiCalls.tips = "pending"
  /\ LET r == generateLegalAdvice(outcome)
     IN  IF r.settled = "resolved" /\ Len(r.tips) > 0
         THEN legalTips' = r.tips /\ lastAlert' = AlertNone
         ELSE IF r.settled = "resolved"
         THEN lastAlert' = AlertNoTips /\ UNCHANGED legalTips
         ELSE lastAlert' = AlertTipsError /\ UNCHANGED legalTips
  /\ isTipsLoading' = FALSE
  /\ aiCalls' = [aiCalls EXCEPT !.tips = "returned"]
  /\ UNCHANGED <<isAiLoading, aiSummary>>
  /\ aiFrame

(***************************************************************************)
(* The page is loaded again.  The component starts from its useState       *)
(* initialisers and the draft; the printers are let go, and what was       *)
(* awaited or scheduled by the page that is gone never resumes.            *)
(***************************************************************************)
Reload ==
  /\ bt' = InitialBt
  /\ conns' = [c \in DOMAIN conns |-> FALSE]
  /\ calls' = [c \in DOMAIN calls |-> "gone"]
  /\ isPrintConfirmOpen' = FALSE
  /\ clientForm' = IF draft.kept THEN draft.clientForm ELSE BlankForm
  /\ cart' = IF draft.kept THEN draft.cart ELSE <<>>
  /\ editId' = IF draft.kept THEN draft.editId ELSE Null
  /\ jobs' = [j \in DOMAIN jobs |->
                IF jobs[j].st = "writing"
                THEN [jobs[j] EXCEPT !.st = "unloaded", !.doomed = FALSE]
                ELSE jobs[j]]
  /\ outstanding' = [c \in DOMAIN outstanding |-> <<>>]
  /\ lastAlert' = AlertNone
  /\ timers' = <<>>
  /\ isSyncing' = FALSE
  /\ fetches' = <<>>
  /\ clock' = clock + 1
  /\ isAiLoading' = FALSE
  /\ isTipsLoading' = FALSE
  /\ aiSummary' = ""
  /\ legalTips' = <<>>
  /\ aiCalls' = NoCalls
  /\ UNCHANGED <<chunkLimit, printerSettings, wireRuns, clients, draft, synced,
                 ownVars>>

(***************************************************************************)
(* The application: every handler of the component, and every step of     *)
(* its environment.                                                        *)
(***************************************************************************)
\* what the inputs are set to
DateInputs == {TodayIso, <<>>}
NameInputs == {<<>>, NameAli}
PhoneInputs == {<<>>, PhoneAli}
PaymentInputs == {PaymentTunai, PaymentQR}
AddressInputs == {<<>>, AddressAli}
FooterInputs == {<<>>, FooterSetting}
SheetUrlInputs == {"", SheetUrl}
ScriptUrlInputs == {"", ScriptUrl}
\* the services of the catalogue
OrderItems == {Wasiat}

Next ==
  \/ (Pick /\ connectBluetooth)
  \/ (Free /\ \E c \in Devices : DeviceChosen(c))
  \/ (Free /\ \E c \in Devices : GattConnected(c))
  \/ (Free /\ \E c \in Devices : GattMissing(c))
  \/ (Free /\ \E c \in Devices : ServiceFound(c))
  \/ (Free /\ \E c \in Devices : CharacteristicFound(c))
  \/ (Free /\ \E c \in Devices : ConnectRejected(c))
  \/ (Free /\ \E d \in Devices : Disconnect(d))
  \/ (Free /\ handleBluetoothPrintTrigger)
  \/ (Free /\ CancelPrint)
  \/ (Confirm /\ ConfirmPrint)
  \/ (Free /\ \E j \in JobIds : WriteAccepted(j))
  \/ (Free /\ \E j \in JobIds : WriteRejected(j))
  \/ (Input /\ handlePrint)
  \/ (Input /\ openGoogleSheet)
  \/ (Input /\ \E d \in DateInputs : d # clientForm.date /\ SetDate(d))
  \/ (Input /\ \E n \in NameInputs : n # clientForm.name /\ SetName(n))
  \/ (Input /\ \E p \in PhoneInputs : p # clientForm.phone /\ SetPhone(p))
  \/ (Input /\ \E m \in PaymentInputs : m # clientForm.payment /\ SetPayment(m))
  \/ (Input /\ \E a \in AddressInputs : a # clientForm.address /\ SetAddress(a))
  \/ (Input /\ Len(cart) < MaxOrder
            /\ \E s \in OrderItems, now \in Times : addToCart(s, now))
  \/ (Input /\ \E k \in 1..Len(cart) : removeFromCart(k))
  \/ (Input /\ resetForm)
  \/ (Input /\ \E now \in Times : saveRecord(now))
  \/ (Input /\ \E k \in 1..Len(clients) : editClient(k))
  \/ (Input /\ \E k \in 1..Len(clients) : deleteClient(k))
  \/ (Free /\ AutoSaveDraft)
  \/ (Input /\ \E t \in FooterInputs :
                 t # printerSettings.footerText /\ SetFooterText(t))
  \/ (Input /\ SetIncludePhone(~printerSettings.includePhone))
  \/ (Input /\ SetIncludeAddress(~printerSettings.includeAddress))
  \/ (Input /\ SetAutoSync(~printerSettings.autoSync))
  \/ (Input /\ \E u \in SheetUrlInputs :
                 u # printerSettings.googleSheetUrl /\ SetGoogleSheetUrl(u))
  \/ (Input /\ \E u \in ScriptUrlInputs :
                 u # printerSettings.googleAppsScriptUrl /\ SetGoogleAppsScriptUrl(u))
  \/ (Input /\ resetSettings)
  \/ (Input /\ syncToGoogleSheet)
  \/ (Free /\ SyncTimerFires)
  \/ (Free /\ \E i \in DOMAIN fetches, ok \in BOOLEAN : FetchSettles(i, ok))
  \/ (Input /\ handleAiAnalyze)
  \/ (Free /\ \E o \in AiOutcomes : AnalyzeSettles(o))
  \/ (Input /\ handleGenerateTips)
  \/ (Free /\ \E o \in AiOutcomes : TipsSettle(o))
  \/ (Input /\ Reload)

\* a run with one printer, one receipt and one other input
SharedRoom == [picks |-> MaxConnects, prints |-> MaxReceipts, inputs |-> MaxEdits]
\* a run with one printer and receipts only
PrintRoom == [picks |-> MaxConnects, prints |-> MaxPrints, inputs |-> 0]
\* a run with printers only
LinkRoom == [picks |-> MaxPairings, prints |-> 0, inputs |-> 0]
\* a run at the desk, no printer at hand
DeskRoom == [picks |-> 0, prints |-> 0, inputs |-> MaxInputs]

\* printers are picked and drop their links, receipts are printed, and in
\* between the order, the records and the settings are changed
Init ==
  /\ \/ PageLoaded(BusyStore, DefaultLimit, SharedRoom)
     \/ PageLoaded(PlainStore, DefaultLimit, PrintRoom)
     \/ PageLoaded(BusyStore, DefaultLimit, LinkRoom)
  /\ NoCallsOfOwn

Spec == Init /\ [][Next]_vars

\* a transport without a timeout of its own: a write handed to a link that
\* has gone is never settled
SettlingLiveOnly ==
  Free /\ \E j \in JobIds :
    LinkUp(jobs[j].char) /\ (WriteAccepted(j) \/ WriteRejected(j))

\* The transport settles every write it was handed: it accepts it, or it
\* rejects it, at the latest when its own timeout expires.
Settling == Free /\ \E j \in JobIds : WriteAccepted(j) \/ WriteRejected(j)

InitLive ==
  /\ PageLoaded(BusyStore, DefaultLimit, SharedRoom)
  /\ NoCallsOfOwn

LiveSpec == InitLive /\ [][Next]_vars /\ WF_vars(Settling)

(***************************************************************************)
(* The record keeping: runs at the desk, with the records, the draft and   *)
(* the settings a working office or a new one has stored.                  *)
(***************************************************************************)
InitRecords ==
  /\ \/ \E store \in {BusyStore, FreshStore} : PageLoaded(store, DefaultLimit, DeskRoom)
     \/ PageLoaded(BusyStore, DefaultLimit, SharedRoom)
  /\ NoCallsOfOwn

SpecRecords == InitRecords /\ [][Next]_vars

(***************************************************************************)
(* The receipt: one printer is picked and receipts are printed, for every  *)
(* setting of the printer, every form and every short cart that            *)
(* localStorage can hold when the page is loaded.                          *)
(***************************************************************************)
\* a service whose name has a character without a single-byte code (U+20AC)
ServiceEuro == <<8364, 53>>
ItemChoices == {[name |-> ServiceWasiat, price |-> 15050],
                [name |-> ServiceEuro, price |-> 5]}

\* the carts of n items, the k-th put in the cart at the time k
RECURSIVE CartsOfLen(_)
CartsOfLen(n) ==
  IF n = 0 THEN {<<>>}
  ELSE {Append(c, ItemOf(it, n)) : c \in CartsOfLen(n - 1), it \in ItemChoices}
ReceiptCarts == UNION {CartsOfLen(n) : n \in 1..MaxCart}

ReceiptSettings ==
  [paperWidth : {"58mm", "80mm"}, extraFeeds : 0..MaxFeeds, boldHeaders : BOOLEAN,
   footerText : {<<>>, FooterSetting}, googleSheetUrl : {""},
   googleAppsScriptUrl : {ScriptUrl}, autoSync : {FALSE},
   includePhone : BOOLEAN, includeAddress : BOOLEAN]

ReceiptForms ==
  [date : {DateIso}, name : {NameAli}, phone : {<<>>, PhoneAli},
   address : {<<>>, AddressAli}, payment : {PaymentTunai}]

\* a cart of two services, the first with the unencodable name
TwoItemCart == <<ItemOf([name |-> ServiceEuro, price |-> 5], 1), ItemOf(Wasiat, 2)>>

ReceiptStoreOf(s, f, c) ==
  [clients |-> <<>>, settings |-> s, draft |-> DraftOf(f, c, Null)]

\* every setting with one order, and every order with the default settings
SettingStores == {ReceiptStoreOf(s, FilledForm, TwoItemCart) : s \in ReceiptSettings}
OrderStores ==
  {ReceiptStoreOf(DEFAULT_PRINTER_SETTINGS, f, c) : f \in ReceiptForms, c \in ReceiptCarts}

\* chunk limits of the link: the default BLE payload, and one no buffer exceeds
ReceiptLimits == {DefaultLimit, 512}

\* a run with one printer and one receipt
ReceiptRoom == [picks |-> MaxConnects, prints |-> MaxReceipts, inputs |-> 0]

InitReceipt ==
  /\ \/ \E store \in SettingStores : PageLoaded(store, DefaultLimit, ReceiptRoom)
     \/ \E store \in OrderStores, limit \in ReceiptLimits :
          PageLoaded(store, limit, ReceiptRoom)
     \/ PageLoaded(BusyStore, DefaultLimit, SharedRoom)
  /\ NoCallsOfOwn

SpecReceipt == InitReceipt /\ [][Next]_vars

(***************************************************************************)
(* The transport writer on its own: one call sendDataToPrinter(char, data) *)
(* on a connected link, for every short buffer and small chunk limit.      *)
(***************************************************************************)
SendBytes == {65, 66}

RECURSIVE BuffersOfLen(_)
BuffersOfLen(n) ==
  IF n = 0 THEN {<<>>}
  ELSE {Append(b, x) : b \in BuffersOfLen(n - 1), x \in SendBytes}
SendBuffers == UNION {BuffersOfLen(n) : n \in 1..MaxBufLen}

InitSend ==
  /\ PageLoaded(EmptyStore, DefaultLimit, NoRoom)
  /\ sendData \in SendBuffers
  /\ sendLimit \in 1..MaxLimit
  /\ send = IdleSend

\* a variant that writes every chunk without awaiting any
SendStartAll ==
  /\ send.st = "idle"
  /\ send' = [send EXCEPT !.st = "writing", !.k = 1,
                          !.issued = Chunks(sendData, sendLimit)]
  /\ UNCHANGED <<sendData, sendLimit, pageVars, room>>

\* sendDataToPrinter up to its first await: the first chunk is written
SendStart ==
  /\ send.st = "idle"
  /\ send' = [send EXCEPT !.st = "writing", !.k = 1,
                          !.issued = <<Chunks(sendData, sendLimit)[1]>>]
  /\ UNCHANGED <<sendData, sendLimit, pageVars, room>>

\* the awaited chunk write resolves: the next chunk is written, or the call returns
SendChunkAccepted ==
  /\ send.st = "writing"
  /\ LET ch == Chunks(sendData, sendLimit)
     IN  IF send.k < Len(ch)
         THEN send' = [send EXCEPT !.k = @ + 1, !.acked = @ + 1,
                                   !.issued = Append(@, ch[send.k + 1])]
         ELSE send' = [send EXCEPT !.st = "done", !.acked = @ + 1]
  /\ UNCHANGED <<sendData, sendLimit, pageVars, room>>

\* the awaited chunk write rejects: the call throws
SendChunkRejected ==
  /\ send.st = "writing"
  /\ send' = [send EXCEPT !.st = "failed", !.acked = @ + 1, !.error = ChunkWriteFailed]
  /\ UNCHANGED <<sendData, sendLimit, pageVars, room>>

NextSend == SendStart \/ SendChunkAccepted \/ SendChunkRejected

SpecSend == InitSend /\ [][NextSend]_vars

\* HELLO
TextHello == <<72, 69, 76, 76, 79>>

TypeOK ==
  /\ bt.characteristic \in 0..Len(conns)
  /\ \A c \in 1..Len(wireRuns) : Len(wireRuns[c]) <= MaxRuns
  /\ \A j \in JobIds : jobs[j].st \in {"writing", "ok", "failed", "rejected", "unloaded"}
  /\ Len(calls) = Len(conns)
  /\ \A c \in Devices : conns[c] => calls[c] \in {"getPrimaryService", "getCharacteristic",
                                                 "paired", "failed"}
  /\ room.picks \in 0..MaxPairings
  /\ room.prints \in 0..MaxPrints
  /\ room.inputs \in 0..MaxInputs
  /\ Len(cart) <= MaxOrder
  /\ isSyncing \in BOOLEAN
  /\ aiCalls.analyze \in {"idle", "pending", "returned", "threw"}
  /\ aiCalls.tips \in {"idle", "pending", "returned"}

(***************************************************************************)
(* Helpers of the properties.                                              *)
(***************************************************************************)
RECURSIVE Concat(_)
Concat(ss) == IF ss = <<>> THEN <<>> ELSE Head(ss) \o Concat(Tail(ss))

CeilDiv(a, b) == (a + b - 1) \div b

\* the bytes a job has handed to the link for its buffer number c, in order
SentBytesOf(job, c, bufs) ==
  LET ps == SelectSeq(job.sent, LAMBDA p : job.writes[p].cmd = c)
  IN  Concat([i \in 1..Len(ps) |-> BytesOfWrite(bufs, chunkLimit, job.writes[ps[i]])])

\* what the link has been handed by a job, buffer by buffer: for each
\* buffer the job has got to, the bytes of its writes, in order
HandedOverOf(job, bufs) ==
  LET n == IF job.sent = <<>> THEN 0 ELSE job.writes[job.sent[Len(job.sent)]].cmd
  IN  [c \in 1..n |-> SentBytesOf(job, c, bufs)]
HandedOver(job) == HandedOverOf(job, BuffersOf(job))

\* the invocation of printBluetoothDirect made at this step, if one is made
Started == Len(jobs') > Len(jobs)
NewJob == jobs'[Len(jobs')]

(***************************************************************************)
(* C1.  Within one print job the writes are handed to the link in the      *)
(* order of the command sequence, none skipped, repeated or merged with    *)
(* another buffer, and a write is only issued once the one before it has   *)
(* resolved; a job that succeeds has written every buffer, whole.          *)
(***************************************************************************)
Thm_C1_JobWritesInOrder ==
  \A j \in JobIds :
    LET job == jobs[j]
        ws == job.writes
    IN  /\ \A i \in 1..Len(job.sent) : job.sent[i] = i
        /\ job.st = "writing" => Len(job.sent) = job.acked + 1
        /\ job.st \in {"ok", "failed"} => Len(job.sent) = job.acked
        /\ \A i \in 2..Len(ws) :
             \/ ws[i].cmd = ws[i - 1].cmd /\ ws[i].chunk = ws[i - 1].chunk + 1
             \/ ws[i].cmd = ws[i - 1].cmd + 1 /\ ws[i].chunk = 1
        /\ job.st = "ok" =>
             /\ Len(job.sent) = Len(job.writes)
             /\ job.writes[1].cmd = 1
             /\ \A bufs \in {BuffersOf(job)} :
                  /\ job.writes[Len(job.writes)].cmd = Len(bufs)
                  /\ \A c \in 1..Len(bufs) : SentBytesOf(job, c, bufs) = bufs[c]

Wit_C1_JobPrintedWholeReceipt ==
  \E j \in JobIds :
    /\ jobs[j].st = "ok"
    /\ Len(jobs[j].sent) > Len(BuffersOf(jobs[j]))

(***************************************************************************)
(* C2.  The stream of writes the link sees is one job's whole stream       *)
(* followed by the next job's: once another job has written, a job does    *)
(* not write again.                                                        *)
(***************************************************************************)
Cex_C2_NoInterleavedJobs ==
  \A c \in 1..Len(wireRuns) :
    \A a, b \in 1..Len(wireRuns[c]) : wireRuns[c][a] = wireRuns[c][b] => a = b

(***************************************************************************)
(* C3.  At most one write to the characteristic is outstanding, and only   *)
(* one job is writing.                                                     *)
(***************************************************************************)
Cex_C3_OneOutstandingWrite ==
  \A c \in 1..Len(outstanding) :
    /\ Len(outstanding[c]) <= 1
    /\ Cardinality({j \in JobIds : jobs[j].st = "writing" /\ jobs[j].char = c}) <= 1

(***************************************************************************)
(* C4.  When a write of a job fails, everything before the failing write   *)
(* was written, nothing after it is attempted, and the failure reported    *)
(* names the index (0-based) of the command whose write failed.            *)
(***************************************************************************)
Cex_C4_FailureNamesCommand ==
  \A j \in JobIds :
    jobs[j].st = "failed" =>
      /\ jobs[j].sent = [i \in 1..jobs[j].pos |-> i]
      /\ jobs[j].acked = jobs[j].pos
      /\ ReportedIndex(jobs[j]) = jobs[j].writes[jobs[j].pos].cmd - 1

(***************************************************************************)
(* C5.  When the device disconnects after the first 2 commands of a job    *)
(* of 5 or more succeeded, the failure names command index 2 and no later  *)
(* command is sent.                                                        *)
(***************************************************************************)
Cex_C5_DisconnectAfterTwoNamesIndexTwo ==
  \A j \in JobIds :
    (/\ jobs[j].st = "failed"
     /\ jobs[j].error = LinkDisconnected
     /\ jobs[j].writes[jobs[j].pos].cmd = 3
     /\ jobs[j].writes[Len(jobs[j].writes)].cmd >= 5)
    => /\ ReportedIndex(jobs[j]) = 2
       /\ \A i \in 1..Len(jobs[j].sent) : jobs[j].writes[jobs[j].sent[i]].cmd <= 3

(***************************************************************************)
(* C6.  No write is issued on a characteristic whose device has fired      *)
(* gattserverdisconnected.                                                 *)
(***************************************************************************)
Cex_C6_NoWriteAfterDisconnect ==
  \A j \in JobIds : ~(jobs[j].st = "writing" /\ jobs[j].doomed)

(***************************************************************************)
(* C7.  For a buffer longer than the chunk limit L, sendDataToPrinter      *)
(* issues ceil(len / L) chunk writes, each of at most L bytes, in order,   *)
(* whose concatenation is the buffer.                                      *)
(***************************************************************************)
Thm_C7_ChunkingCoversBuffer ==
  Len(sendData) > sendLimit =>
    /\ \A i \in 1..Len(send.issued) :
         /\ Len(send.issued[i]) <= sendLimit
         /\ Len(send.issued[i]) >= 1
    /\ Len(send.issued) <= CeilDiv(Len(sendData), sendLimit)
    /\ Concat(send.issued) = SubSeq(sendData, 1, Len(Concat(send.issued)))
    /\ send.st = "done" =>
         /\ Len(send.issued) = CeilDiv(Len(sendData), sendLimit)
         /\ Concat(send.issued) = sendData

Wit_C7_RaggedBufferSent ==
  /\ send.st = "done"
  /\ Len(sendData) > sendLimit
  /\ Len(sendData) % sendLimit # 0

(***************************************************************************)
(* C8.  Within one buffer, chunk k is written only after the write of      *)
(* chunk k-1 has resolved: never more than one chunk write is unresolved.  *)
(***************************************************************************)
Thm_C8_ChunkAwaitsPrevious ==
  /\ Len(send.issued) <= send.acked + 1
  /\ send.st = "writing" => send.k = send.acked + 1
  /\ Len(send.issued) = send.k

Wit_C8_SecondChunkInFlight ==
  /\ send.st = "writing"
  /\ send.k >= 2

(***************************************************************************)
(* C9.  A print invoked while no characteristic is connected fails fast:   *)
(* the user is told to connect first, no write is issued, and the print    *)
(* trigger does not open the confirmation modal.                           *)
(***************************************************************************)
Thm_C9_NotConnectedFailsFast ==
  [][ /\ (Started /\ bt.characteristic = Null)
         => /\ NewJob.st = "rejected"
            /\ NewJob.alert = AlertConnectFirst
            /\ NewJob.sent = <<>>
            /\ outstanding' = outstanding
            /\ wireRuns' = wireRuns
      /\ (bt.characteristic = Null /\ ~isPrintConfirmOpen) => ~isPrintConfirmOpen'
      /\ \A j \in JobIds : jobs[j].st = "rejected" => jobs'[j] = jobs[j]
    ]_vars

Wit_C9_PrintRejectedWithoutLink ==
  \E j \in JobIds :
    /\ jobs[j].st = "rejected"
    /\ jobs[j].alert = AlertConnectFirst
    /\ jobs[j].sent = <<>>
    /\ bt.characteristic = Null

(***************************************************************************)
(* C10.  No retry: a job hands each of its writes to the link at most      *)
(* once, and a job whose write failed writes nothing more.                 *)
(***************************************************************************)
Thm_C10_NoRetry ==
  [][ \A j \in JobIds :
        /\ jobs[j].st \in {"failed", "ok"} => jobs'[j] = jobs[j]
        /\ Len(jobs'[j].sent) >= Len(jobs[j].sent)
        /\ SubSeq(jobs'[j].sent, 1, Len(jobs[j].sent)) = jobs[j].sent
        /\ \A i \in (Len(jobs[j].sent) + 1)..Len(jobs'[j].sent) :
             \A k \in 1..Len(jobs[j].sent) : jobs'[j].sent[i] # jobs[j].sent[k]
    ]_vars

Wit_C10_JobFailedMidway ==
  \E j \in JobIds :
    /\ jobs[j].st = "failed"
    /\ Len(jobs[j].sent) >= 2
    /\ Len(jobs[j].sent) < Len(jobs[j].writes)

(***************************************************************************)
(* C11.  During one job the link goes Connected -> WritingChunk ->         *)
(* Connected on each accepted write; a rejected write or a device-         *)
(* initiated disconnect ends the job, and within that job no write is      *)
(* begun once the device has disconnected.                                 *)
(***************************************************************************)
\* the state of the link as one job sees it
LinkStateOf(job) ==
  IF job.st = "failed" \/ ~LinkUp(job.char) THEN "Disconnected"
  ELSE IF job.st = "writing" THEN "WritingChunk"
  ELSE "Connected"

Cex_C11_LinkStateMachine ==
  [][ \A j \in JobIds :
        /\ (jobs[j].st = "writing" /\ LinkStateOf(jobs[j]) = "WritingChunk"
            /\ jobs'[j] # jobs[j])
           => \/ jobs'[j].st \in {"failed", "unloaded"}
              \/ jobs'[j].st \in {"writing", "ok"} /\ jobs'[j].acked = jobs[j].acked + 1
        /\ (jobs[j].st = "writing" /\ LinkStateOf(jobs[j]) = "Disconnected")
           => /\ Len(jobs'[j].sent) = Len(jobs[j].sent)
              /\ jobs'[j].st \in {"writing", "failed", "unloaded"}
        /\ jobs[j].st = "failed" => jobs'[j] = jobs[j]
    ]_vars

(***************************************************************************)
(* C12.  A print job never creates or tears down the link: no step of      *)
(* printBluetoothDirect (start, accepted write, rejected write, return     *)
(* without a characteristic) changes bt or the connection, and a job that  *)
(* starts writes through the handle bt holds at that moment.               *)
(***************************************************************************)
\* an invocation of printBluetoothDirect starts or resumes at this step
JobStepped ==
  \/ Started
  \/ \E j \in JobIds : jobs'[j] # jobs[j] /\ jobs'[j].st # "unloaded"

Thm_C12_JobLeavesLinkAlone ==
  [][ /\ JobStepped => bt' = bt /\ conns' = conns /\ calls' = calls
      /\ (Started /\ NewJob.st = "writing")
         => /\ bt.characteristic # Null
            /\ NewJob.char = bt.characteristic
    ]_vars

\* two jobs, one after the other, have printed through the same handle,
\* which bt still holds
Wit_C12_HandleReusedByNextJob ==
  /\ Len(jobs) >= 2
  /\ jobs[1].st = "ok"
  /\ jobs[2].st = "ok"
  /\ jobs[1].char = jobs[2].char
  /\ bt.characteristic = jobs[1].char
  /\ wireRuns[jobs[1].char] = <<1, 2>>

(***************************************************************************)
(* C13.  A print job hands over the header, then the customer lines, then  *)
(* the line items in cart order (name before price), then the total, the   *)
(* footer and extraFeeds feed commands, for every cart, form and setting.  *)
(* The three separator lines close the header and the customer lines and   *)
(* open the total.                                                         *)
(***************************************************************************)
B2N(b) == IF b THEN 1 ELSE 0

Thm_C13_SectionsInOrder ==
  \A j \in JobIds : jobs[j].st = "ok" =>
    \A out \in {HandedOver(jobs[j])} :
      LET ps == jobs[j].ps
          form == jobs[j].form
          items == jobs[j].cart
          sep == textToBytes(getSeparator(ps.paperWidth))
          seps == {i \in 1..Len(out) : out[i] = sep}
          tel == ps.includePhone /\ form.phone # <<>>
          adr == ps.includeAddress /\ form.address # <<>>
          s1 == IF ps.boldHeaders THEN 10 ELSE 8
          s2 == s1 + 4 + B2N(tel) + B2N(adr)
          s3 == s2 + 1 + 2 * Len(items)
          t == IF ps.boldHeaders THEN 5 ELSE 4
      IN  /\ Len(out) = s3 + 7 + ps.extraFeeds
          /\ seps = {s1, s2, s3}
          \* header
          /\ out[1] = ESC_INIT
          /\ out[2] = ESC_ALIGN_CENTER
          /\ ps.boldHeaders => out[3] = ESC_BOLD_ON /\ out[7] = ESC_BOLD_OFF
          /\ out[t - 1] = FONT_SIZE_LARGE
          /\ out[t] = textToBytes(TitleText)
          /\ out[t + 1] = FONT_SIZE_NORMAL
          /\ out[s1 - 2] = textToBytes(SubtitleText)
          /\ out[s1 - 1] = textToBytes(OfficePhoneText)
          \* customer info
          /\ out[s1 + 1] = ESC_ALIGN_LEFT
          /\ out[s1 + 2] = textToBytes(TarikhPrefix \o formatDateForDisplay(form.date))
          /\ out[s1 + 3] = textToBytes(NamaPrefix \o form.name)
          /\ tel => out[s1 + 4] = textToBytes(TelPrefix \o form.phone)
          /\ adr => out[s2 - 1] = textToBytes(AlamatPrefix \o form.address)
          \* line items
          /\ \A i \in 1..Len(items) :
               /\ out[s2 + 2 * i - 1] = textToBytes(items[i].name)
               /\ out[s2 + 2 * i] = textToBytes(RMPrefix \o toFixed2(items[i].price))
          \* total
          /\ out[s3 + 1] = ESC_ALIGN_CENTER
          /\ out[s3 + 2] = ESC_BOLD_ON
          /\ out[s3 + 3] = FONT_SIZE_DOUBLE_HEIGHT
          /\ out[s3 + 4] = textToBytes(JumlahPrefix \o toFixed2(total(items)))
          /\ out[s3 + 5] = FONT_SIZE_NORMAL
          /\ out[s3 + 6] = ESC_BOLD_OFF
          \* footer, then the feeds
          /\ out[s3 + 7] = textToBytes(IF ps.footerText # <<>> THEN ps.footerText
                                       ELSE DefaultFooter)
          /\ \A k \in 1..ps.extraFeeds : out[s3 + 7 + k] = ESC_FEED

Wit_C13_TwoItemReceiptPrinted ==
  /\ Len(jobs) >= 1
  /\ jobs[1].st = "ok"
  /\ Len(jobs[1].cart) = 2
  /\ jobs[1].cart[1].name # jobs[1].cart[2].name
  /\ ~jobs[1].ps.boldHeaders
  /\ jobs[1].ps.includePhone /\ jobs[1].form.phone # <<>>
  /\ ~jobs[1].ps.includeAddress
  /\ jobs[1].ps.extraFeeds >= 1
  /\ Len(HandedOver(jobs[1])) = 8 + 5 + 5 + 7 + jobs[1].ps.extraFeeds

(***************************************************************************)
(* C14.  A started print job does not hang: the transport settles every    *)
(* write (a write it does not complete in time it rejects), a rejected     *)
(* write ends the job, and so every job that has started writing           *)
(* eventually returns, with success or with failure, unless the page is    *)
(* unloaded first.                                                         *)
(***************************************************************************)
Thm_C14_JobTerminates ==
  \A j \in 1..MaxPrints :
    (j \in DOMAIN jobs /\ jobs[j].st = "writing")
    ~> (j \in DOMAIN jobs /\ jobs[j].st \in {"ok", "failed", "unloaded"})

\* a write was rejected on a link that is still up, and the job has ended
Wit_C14_JobEndedByRejectedWrite ==
  \E j \in JobIds :
    /\ jobs[j].st = "failed"
    /\ jobs[j].error = ChunkWriteFailed
    /\ LinkUp(jobs[j].char)
    /\ jobs[j].acked < Len(jobs[j].writes)

(***************************************************************************)
(* C15.  Once a chunk write of a job has been rejected, no further chunk   *)
(* of that buffer and no chunk of a later buffer is ever written: what a   *)
(* failed job has handed to the link is exactly its writes up to the       *)
(* rejected one.                                                           *)
(***************************************************************************)
Thm_C15_RejectedChunkEndsSequence ==
  \A j \in JobIds :
    jobs[j].st = "failed" =>
      LET ws == jobs[j].writes
          f == ws[jobs[j].pos]
          issued == {jobs[j].sent[i] : i \in 1..Len(jobs[j].sent)}
      IN  /\ Len(jobs[j].sent) = jobs[j].pos
          /\ \A i \in 1..Len(ws) :
               (ws[i].cmd > f.cmd \/ (ws[i].cmd = f.cmd /\ ws[i].chunk > f.chunk))
               => i \notin issued

\* the first chunk of a buffer of several chunks was rejected on a live link
Wit_C15_RejectedInsideBuffer ==
  \E j \in JobIds :
    /\ jobs[j].st = "failed"
    /\ jobs[j].error = ChunkWriteFailed
    /\ jobs[j].pos < Len(jobs[j].writes)
    /\ jobs[j].writes[jobs[j].pos].chunk = 1
    /\ jobs[j].writes[jobs[j].pos + 1].cmd = jobs[j].writes[jobs[j].pos].cmd

(***************************************************************************)
(* C16.  A job that fails because the device has disconnected and a job    *)
(* that fails because a chunk write was rejected on a live link report     *)
(* different failures: two jobs that failed for different causes never     *)
(* show the same report.                                                   *)
(***************************************************************************)
Cex_C16_FailureKindsDistinguished ==
  \A a, b \in JobIds :
    (/\ jobs[a].st = "failed"
     /\ jobs[b].st = "failed"
     /\ jobs[a].error = LinkDisconnected
     /\ jobs[b].error = ChunkWriteFailed)
    => ReportedKind(jobs[a]) # ReportedKind(jobs[b])

(***************************************************************************)
(* C17.  getSeparator returns exactly 32 dashes for the 58mm profile and   *)
(* exactly 48 for the 80mm profile, followed by the line terminator, and   *)
(* nothing but the profile decides the width: every separator line of      *)
(* every receipt is that line.                                             *)
(***************************************************************************)
Thm_C17_SeparatorWidth ==
  \A j \in JobIds : jobs[j].st = "ok" =>
    \A out \in {HandedOver(jobs[j])} :
      LET w == IF jobs[j].ps.paperWidth = "58mm" THEN 32 ELSE 48
          s1 == IF jobs[j].ps.boldHeaders THEN 10 ELSE 8
          lines == {i \in 1..Len(out) :
                      Len(out[i]) > 1 /\ \A k \in 1..(Len(out[i]) - 1) : out[i][k] = 45}
      IN  /\ Len(getSeparator(jobs[j].ps.paperWidth)) = w + 1
          /\ s1 \in lines
          /\ Cardinality(lines) = 3
          /\ \A i \in lines :
               /\ Len(out[i]) = w + 1
               /\ out[i][w + 1] = 10

Wit_C17_WideSeparatorPrinted ==
  /\ Len(jobs) >= 1
  /\ jobs[1].st = "ok"
  /\ jobs[1].ps.paperWidth = "80mm"
  /\ \E out \in {HandedOver(jobs[1])} :
       \E i \in 1..Len(out) : Len(out[i]) = 49 /\ out[i][48] = 45 /\ out[i][49] = 10

(***************************************************************************)
(* C19.  A character without a single-byte code does not fail the job:     *)
(* the text is encoded with one byte per character, the fallback byte in   *)
(* place of that character and every other character's own code, and the   *)
(* commands after the text are handed over as usual.                       *)
(***************************************************************************)
Thm_C19_FallbackByteKeepsJobGoing ==
  \A j \in JobIds : jobs[j].st = "ok" =>
    \A out \in {HandedOver(jobs[j])} :
      LET s1 == IF jobs[j].ps.boldHeaders THEN 10 ELSE 8
          s2 == s1 + 4
                + B2N(jobs[j].ps.includePhone /\ jobs[j].form.phone # <<>>)
                + B2N(jobs[j].ps.includeAddress /\ jobs[j].form.address # <<>>)
          n == Len(jobs[j].cart)
      IN  /\ \A i \in 1..n :
               LET t == jobs[j].cart[i].name
                   b == out[s2 + 2 * i - 1]
               IN  /\ Len(b) = Len(t)
                   /\ \A k \in 1..Len(t) : b[k] = IF t[k] <= 255 THEN t[k] ELSE 63
                   /\ out[s2 + 2 * i][1] = 82
          /\ Len(out) = s2 + 2 * n + 8 + jobs[j].ps.extraFeeds
          /\ out[s2 + 2 * n + 2] = ESC_ALIGN_CENTER

\* a receipt whose first item has a name with such a character was printed
Wit_C19_EuroItemPrinted ==
  /\ Len(jobs) >= 1
  /\ jobs[1].st = "ok"
  /\ Len(jobs[1].cart) = 2
  /\ jobs[1].cart[1].name = ServiceEuro
  /\ jobs[1].cart[2].name = ServiceWasiat
  /\ \E out \in {HandedOver(jobs[1])} : 63 \in {out[i][1] : i \in 1..Len(out)}

(***************************************************************************)
(* C20.  When every buffer of a job is within the chunk limit, the link    *)
(* receives exactly one write for each buffer, carrying the whole buffer,  *)
(* in the order of the buffers; so [Init, AlignCenter, Text("HELLO"),      *)
(* Feed] with limit 512 makes four writes, the text after the init and     *)
(* align bytes and before the feed.                                        *)
(***************************************************************************)
HelloBuffers == <<ESC_INIT, ESC_ALIGN_CENTER, textToBytes(TextHello), ESC_FEED>>

Thm_C20_OneWritePerBuffer ==
  /\ \A j \in JobIds : jobs[j].st = "ok" =>
       \A bufs \in {BuffersOf(jobs[j])} :
         (\A i \in 1..Len(bufs) : Len(bufs[i]) <= chunkLimit)
         => /\ Len(jobs[j].sent) = Len(bufs)
            /\ \A i \in 1..Len(bufs) :
                 /\ jobs[j].writes[jobs[j].sent[i]].cmd = i
                 /\ BytesOfWrite(bufs, chunkLimit, jobs[j].writes[jobs[j].sent[i]])
                    = bufs[i]
  /\ LET ws == JobWrites(HelloBuffers, 512)
     IN  /\ Len(ws) = 4
         /\ \A i \in 1..4 : /\ ws[i].cmd = i
                            /\ BytesOfWrite(HelloBuffers, 512, ws[i]) = HelloBuffers[i]
         /\ BytesOfWrite(HelloBuffers, 512, ws[3]) = <<72, 69, 76, 76, 79>>

\* a receipt with a title longer than the default payload went out on a
\* link whose limit no buffer exceeds
Wit_C20_ReceiptWithinLimit ==
  /\ Len(jobs) >= 1
  /\ jobs[1].st = "ok"
  /\ chunkLimit = 512
  /\ Len(jobs[1].cart) = 1
  /\ \E bufs \in {BuffersOf(jobs[1])} :
       /\ Len(jobs[1].sent) = Len(bufs)
       /\ \E i \in 1..Len(bufs) : Len(bufs[i]) > 20

(***************************************************************************)
(* C21.  Every confirmed print attempt ends with the confirmation modal    *)
(* closed: at the step at which an invocation of printBluetoothDirect      *)
(* returns (after its last write, after a rejected write, or at once       *)
(* because the link was lost before the confirmation), the modal is        *)
(* closed.                                                                 *)
(***************************************************************************)
Cex_C21_AttemptClosesModal ==
  [][ /\ \A j \in JobIds :
           (jobs[j].st = "writing" /\ jobs'[j].st \in {"ok", "failed"})
           => ~isPrintConfirmOpen'
      /\ (Started /\ NewJob.st = "rejected") => ~isPrintConfirmOpen'
    ]_vars

(***************************************************************************)
(* C22.  bt describes the most recently connected device: when a printer   *)
(* drops its link while bt holds the device and characteristic of another  *)
(* printer, bt is left as it is.                                           *)
(***************************************************************************)
Cex_C22_BtIsLatestDevice ==
  [][\A d \in Devices :
       (Disconnect(d) /\ bt.characteristic # Null /\ bt.device # d)
       => bt' = bt]_vars

(***************************************************************************)
(* The printer as the receipt sees it: the alignment, weight and font in   *)
(* force, changed by the control buffers it receives.                      *)
(***************************************************************************)
PrinterModes == [align : {"left", "center"}, bold : BOOLEAN,
                 font : {"normal", "large", "tall"}]
\* the modes after ESC @
PrinterReset == [align |-> "left", bold |-> FALSE, font |-> "normal"]

\* the modes after the printer has taken one buffer
Printed(mode, buf) ==
  IF buf = ESC_INIT THEN PrinterReset
  ELSE IF buf = ESC_ALIGN_CENTER THEN [mode EXCEPT !.align = "center"]
  ELSE IF buf = ESC_ALIGN_LEFT THEN [mode EXCEPT !.align = "left"]
  ELSE IF buf = ESC_BOLD_ON THEN [mode EXCEPT !.bold = TRUE]
  ELSE IF buf = ESC_BOLD_OFF THEN [mode EXCEPT !.bold = FALSE]
  ELSE IF buf = FONT_SIZE_NORMAL THEN [mode EXCEPT !.font = "normal"]
  ELSE IF buf = FONT_SIZE_LARGE THEN [mode EXCEPT !.font = "large"]
  ELSE IF buf = FONT_SIZE_DOUBLE_HEIGHT THEN [mode EXCEPT !.font = "tall"]
  ELSE mode

\* the modes in force when each buffer from the i-th on arrives
RECURSIVE ModesFrom(_, _, _)
ModesFrom(bufs, i, mode) ==
  IF i > Len(bufs) THEN <<>>
  ELSE <<mode>> \o ModesFrom(bufs, i + 1, Printed(mode, bufs[i]))

ControlBuffers == {ESC_INIT, ESC_ALIGN_CENTER, ESC_ALIGN_LEFT, ESC_BOLD_ON,
                   ESC_BOLD_OFF, ESC_FEED, FONT_SIZE_NORMAL, FONT_SIZE_LARGE,
                   FONT_SIZE_DOUBLE_HEIGHT}

\* the modes the printer is left in by a job that has ended
LeftBy(job) ==
  IF job.sent = <<>> THEN PrinterReset
  ELSE LET bufs == BuffersOf(job)
           n == job.writes[job.sent[Len(job.sent)]].cmd
           ms == ModesFrom(bufs, 1, PrinterReset)
       IN  Printed(ms[n], bufs[n])

(***************************************************************************)
(* C23.  Whatever modes an earlier job left the printer in, the first      *)
(* buffer of a job is Init, every text of the customer and line-item       *)
(* sections is printed left-aligned, not bold and in the normal font, and  *)
(* the header and the total section end with bold off and the normal font. *)
(***************************************************************************)
Thm_C23_CustomerAndItemsPlain ==
  \A j \in JobIds : jobs[j].st = "ok" =>
    \A out \in {HandedOver(jobs[j])} :
      LET h == Len(HeaderBuffers(jobs[j].ps))
          c == Len(CustomerBuffers(jobs[j].ps, jobs[j].form, FALSE))
          l == Len(LineItemBuffers(jobs[j].cart, FALSE))
          t == Len(TotalBuffers(jobs[j].ps, jobs[j].cart, FALSE))
      IN  \* the modes in force when each buffer arrives: Init undoes whatever
          \* was left, so from the second buffer on they are the same for all
          \A ms \in {<<PrinterReset>> \o ModesFrom(out, 2, PrinterReset)} :
            /\ out[1] = ESC_INIT
            /\ \A left \in PrinterModes : Printed(left, out[1]) = PrinterReset
            /\ \A i \in (h + 1)..(h + c + l) :
                 out[i] \notin ControlBuffers => ms[i] = PrinterReset
            /\ ~ms[h + 1].bold /\ ms[h + 1].font = "normal"
            /\ ~ms[h + c + l + t + 1].bold
            /\ ms[h + c + l + t + 1].font = "normal"

\* a job was aborted while the enlarged font was in force, and the receipt
\* printed after it, through the same handle, came out whole
Wit_C23_PlainItemsAfterAbortedJob ==
  /\ Len(jobs) >= 2
  /\ jobs[1].st = "failed"
  /\ jobs[2].st = "ok"
  /\ jobs[1].char = jobs[2].char
  /\ wireRuns[jobs[1].char] = <<1, 2>>
  /\ LeftBy(jobs[1]).font # "normal"
  /\ HandedOver(jobs[2])[1] = ESC_INIT

(***************************************************************************)
(* C24.  With autoSync on, the sync scheduled by saveRecord sends a        *)
(* payload that contains the record just saved, also when it is the first  *)
(* record ever saved.                                                      *)
(***************************************************************************)
Cex_C24_SyncCarriesSavedRecord ==
  synced.ran =>
    /\ synced.sent
    /\ \E i \in 1..Len(synced.data) : synced.data[i] = PayloadOf(synced.saved)

(***************************************************************************)
(* C25.  editId is null or the id of a record present in clients, after    *)
(* any sequence of editClient, deleteClient, saveRecord, resetForm, draft  *)
(* auto-save and draft restore.                                            *)
(***************************************************************************)
Cex_C25_EditIdNamesRecord == editId = Null \/ HasId(clients, editId)

(***************************************************************************)
(* C26.  A save that is accepted in edit mode replaces the record whose    *)
(* id is editId and nothing else, keeping the number and the order of the  *)
(* records; in new mode it puts exactly one record in front of the others; *)
(* in both cases the form, the cart and editId are cleared afterwards.     *)
(***************************************************************************)
Thm_C26_SaveReplacesOrPrepends ==
  [][\A now \in Times :
       (saveRecord(now) /\ clientForm.name # <<>> /\ Len(cart) # 0) =>
         /\ IF editId # Null
            THEN /\ Len(clients') = Len(clients)
                 /\ \A i \in 1..Len(clients) :
                      IF clients[i].id = editId
                      THEN clients'[i] = RecordOf(editId, clientForm, cart)
                      ELSE clients'[i] = clients[i]
            ELSE /\ Len(clients') = Len(clients) + 1
                 /\ clients'[1] = RecordOf(now, clientForm, cart)
                 /\ clients'[1].name = clientForm.name
                 /\ clients'[1].cartItems = cart
                 /\ \A i \in 1..Len(clients) : clients'[i + 1] = clients[i]
         /\ clientForm' = BlankForm
         /\ cart' = <<>>
         /\ editId' = Null]_vars

\* the second of two records was edited and saved with another date: it is
\* still the second, and the form is blank again
Wit_C26_SecondRecordUpdated ==
  /\ Len(clients) = 2
  /\ clients[1].id = 2
  /\ clients[2].id = 1
  /\ clients[2].date = <<HyphenChar>>
  /\ clients[1].date # <<HyphenChar>>
  /\ lastAlert = AlertUpdated
  /\ editId = Null
  /\ clientForm = BlankForm

(***************************************************************************)
(* C27.  A save with an empty customer name or an empty cart is rejected   *)
(* and changes nothing: clients, cart, clientForm, editId and the stored   *)
(* draft stay as they are, and no sync is scheduled.                       *)
(***************************************************************************)
Thm_C27_RejectedSaveChangesNothing ==
  [][\A now \in Times :
       (saveRecord(now) /\ (clientForm.name = <<>> \/ Len(cart) = 0)) =>
         /\ UNCHANGED <<clients, cart, clientForm, editId, draft, timers>>
         /\ lastAlert' \in {AlertEnterName, AlertPickOne}]_vars

\* with a record saved, its sync still to run and a draft kept, a save with
\* a name and an empty cart was turned down
Wit_C27_EmptyCartTurnedDown ==
  /\ lastAlert = AlertPickOne
  /\ clientForm.name # <<>>
  /\ cart = <<>>
  /\ clients # <<>>
  /\ draft.kept
  /\ timers # <<>>

(***************************************************************************)
(* C28.  Editing a saved record restores the form date it was saved with:  *)
(* for every save that is accepted, formatDateForInput of the date stored  *)
(* in the record is the date the form held, an empty date included.        *)
(***************************************************************************)
Cex_C28_EditRestoresFormDate ==
  [][\A now \in Times :
       (saveRecord(now) /\ clientForm.name # <<>> /\ Len(cart) # 0) =>
         \A i \in 1..Len(clients') :
           (IF editId # Null THEN clients'[i].id = editId ELSE i = 1)
           => /\ clients'[i].date = formatDateForDisplay(clientForm.date)
              /\ FormOf(clients'[i]).date = clientForm.date]_vars

(***************************************************************************)
(* C29.  The service functions never reject, whatever goes wrong, and      *)
(* once handleAiAnalyze, respectively handleGenerateTips, has finished,    *)
(* isAiLoading, respectively isTipsLoading, is false again.                *)
(***************************************************************************)
Thm_C29_LoadingFlagsCleared ==
  /\ \A o \in AiOutcomes :
       /\ analyzeLegalServices(o).settled = "resolved"
       /\ generateLegalAdvice(o).settled = "resolved"
  /\ aiCalls.analyze # "pending" => ~isAiLoading
  /\ aiCalls.tips # "pending" => ~isTipsLoading
  /\ aiCalls.analyze # "threw"

\* a summary request ended by an API error: the fallback text is shown and
\* the spinner is off; so with tips whose text was no JSON
Wit_C29_SummaryFellBack ==
  /\ aiCalls.analyze = "returned"
  /\ aiSummary = SummaryFailed
  /\ ~isAiLoading
  /\ aiCalls.tips = "returned"
  /\ legalTips = TipsUnparsed
  /\ ~isTipsLoading

====
